---- MODULE Spec2Model ----
(***************************************************************************)
(* Model of the alghazal backend: the project status state machine, the    *)
(* estimation and quotation documents attached to a project, and the       *)
(* derived financial fields.  The persistence layer is a set of            *)
(* collections keyed by document id; every request handler is an action    *)
(* that reads and writes these collections and records the HTTP response.  *)
(***************************************************************************)
EXTENDS Integers, Sequences, FiniteSets, TLC

VARIABLES
    clients,      \* Client collection: id -> document
    projects,     \* Project collection: id -> document
    estimations,  \* Estimation collection: id -> document
    quotations,   \* Quotation collection: id -> document
    response,     \* the last request served and the response it got
    inflight,     \* requests suspended at an await (interleaved runs only)
    lpos,         \* LPO collection: the projects an LPO is stored for
    workCompletions,  \* WorkCompletion collection: id -> document
    storage,      \* object storage: the keys of the stored files
    mail,         \* per handler, the outcome of the last notification it tried to send
    browsers,     \* the requests whose renderer (a launched browser) is open
    logged        \* the entry the last step appended to the Comment collection

vars == <<clients, projects, estimations, quotations, response, inflight,
          lpos, workCompletions, storage, mail, browsers, logged>>

\* ---------------------------------------------------------------- universe

\* JavaScript's undefined: a field or request parameter that is not there.
None == "none"

\* undefined in a numeric field or parameter: a value outside every numeric
\* domain of the model, so that it is never mistaken for a number.
NoNum == 0 - 1000

ClientIds == {"c1", "c2"}
ProjectIds == {"p1"}
EstimationIds == {"e1", "e2"}
QuotationIds == {"q1", "q2"}
WorkCompletionIds == {"w1", "w2"}
Users == {"u1", "u2"}
Trns == {"t1"}
\* The TRNs of the requests that compete for a TRN.
TrnsTwo == {"t1", "t2"}

\* Number of requests that can be suspended at an await at the same time.
MaxReqs == 2

\* Number of images a work completion holds at most.
MaxImages == 2
Reqs == 1..MaxReqs

\* ------------------------------------------------- status transition table

validStatusTransitions ==
    ("draft" :> {"estimation_prepared"}) @@
    ("estimation_prepared" :> {"quotation_sent", "on_hold", "cancelled"}) @@
    ("quotation_sent" :>
        {"quotation_approved", "quotation_rejected", "on_hold", "cancelled"}) @@
    ("quotation_approved" :> {"contract_signed", "on_hold", "cancelled"}) @@
    ("contract_signed" :> {"work_started", "on_hold", "cancelled"}) @@
    ("work_started" :> {"in_progress", "on_hold", "cancelled"}) @@
    ("in_progress" :> {"work_completed", "on_hold", "cancelled"}) @@
    ("work_completed" :> {"quality_check", "on_hold"}) @@
    ("quality_check" :> {"client_handover", "work_completed"}) @@
    ("client_handover" :> {"final_invoice_sent", "on_hold"}) @@
    ("final_invoice_sent" :> {"payment_received", "on_hold"}) @@
    ("payment_received" :> {"project_closed"}) @@
    ("on_hold" :> {"in_progress", "work_started", "cancelled"}) @@
    ("cancelled" :> {}) @@
    ("project_closed" :> {})

\* The enum of projectSchema.status: what a validated write accepts.
StatusEnum ==
    {"draft", "estimation_prepared", "quotation_sent", "lpo_received",
     "work_started", "in_progress", "work_completed", "invoice_sent",
     "on_hold", "cancelled"}

\* Every status some handler or the table mentions.
AllStatuses ==
    DOMAIN validStatusTransitions \cup StatusEnum \cup {"quotation_rejected"}

\* A faulty variant of the check: a status that is no key of the table allows everything.
TransitionAllowedLax(s, t) ==
    s \notin DOMAIN validStatusTransitions \/ t \in validStatusTransitions[s]

\* validStatusTransitions[s]?.includes(t): undefined (falsy) when s is no key.
TransitionAllowed(s, t) ==
    s \in DOMAIN validStatusTransitions /\ t \in validStatusTransitions[s]

\* ----------------------------------------------------------------- responses

\* A response message: the text and the two values a template interpolates.
Msg(text) == <<text, None, None>>

InvalidTransitionMsg(s, t) == <<"Invalid status transition from _ to _", s, t>>

Response(op, args, code, msg) ==
    [op |-> op, args |-> args, code |-> code, msg |-> msg]

NoResponse == Response(None, <<>>, 0, Msg(None))

\* --------------------------------------------------------------- documents

NoClient == [exists |-> FALSE, trnNumber |-> None]

\* issued: the id has been handed out (ids of deleted projects are not reused).
NoProject == [exists |-> FALSE, issued |-> FALSE, status |-> None,
              progress |-> 0, client |-> None, assignedTo |-> None]

FreeProjectIds == {p \in ProjectIds : ~projects[p].issued}

FreeClientIds == {c \in ClientIds : ~clients[c].exists}

\* A stored image of a work completion: its title and its storage key.
WorkCompletionImage(title, s3Key) == [title |-> title, s3Key |-> s3Key]

NoWorkCompletion == [exists |-> FALSE, project |-> None, createdBy |-> None, images |-> <<>>]

\* A key of the object storage: the document the file belongs to and its slot.
StorageKey(owner, slot) == [owner |-> owner, slot |-> slot]

\* An entry of the activity log: Comment.create({project, actionType, ...}).
CommentEntry(actionType, project) == [actionType |-> actionType, project |-> project]

\* The step appended nothing to the Comment collection.
NoComment == CommentEntry(None, None)

\* ------------------------------------------------------------ client handlers

\* createClient: required fields, then the TRN lookup, then the insert.
CreateClient(trn, fieldsPresent) ==
    LET args == [trnNumber |-> trn] IN
    /\ logged' = NoComment
    /\ UNCHANGED <<browsers, projects, estimations, quotations, inflight, lpos, workCompletions, storage, mail>>
    /\ IF ~fieldsPresent \/ trn = None
       THEN /\ response' = Response("createClient", args, 400,
                Msg("Client name, address, pincode, mobile number and TRN are required"))
            /\ UNCHANGED clients
       ELSE IF \E c \in ClientIds : clients[c].exists /\ clients[c].trnNumber = trn
       THEN /\ response' = Response("createClient", args, 400,
                Msg("Client with this TRN already exists"))
            /\ UNCHANGED clients
       ELSE /\ FreeClientIds # {}
            /\ LET c == CHOOSE x \in FreeClientIds : TRUE IN
               clients' = [clients EXCEPT ![c] = [exists |-> TRUE, trnNumber |-> trn]]
            /\ response' = Response("createClient", args, 201,
                Msg("Client created successfully"))

\* deleteClient: findByIdAndDelete, no referential guard.
DeleteClient(c) ==
    LET args == [id |-> c] IN
    /\ logged' = NoComment
    /\ UNCHANGED <<browsers, projects, estimations, quotations, inflight, lpos, workCompletions, storage, mail>>
    /\ IF ~clients[c].exists
       THEN /\ response' = Response("deleteClient", args, 404, Msg("Client not found"))
            /\ UNCHANGED clients
       ELSE /\ clients' = [clients EXCEPT ![c] = NoClient]
            /\ response' = Response("deleteClient", args, 200,
                Msg("Client deleted successfully"))

\* A faulty variant of the schema: trnNumber carries no unique index.
UniqueTrnIndexOff(c, trn) == TRUE

\* trnNumber: { unique: true }: the index accepts trn on document c (None: a
\* new document) when no other document holds it.
UniqueTrnIndex(c, trn) ==
    ~\E x \in ClientIds \ {c} : clients[x].exists /\ clients[x].trnNumber = trn

\* Client.findOne({ trnNumber, _id: { $ne: id } }) finds a document.
OtherClientWithTrn(c, trn) ==
    \E x \in ClientIds \ {c} : clients[x].exists /\ clients[x].trnNumber = trn

\* The TRN findByIdAndUpdate writes: trnNumber || client.trnNumber.
UpdatedTrn(doc, trn) == IF trn # None THEN trn ELSE doc.trnNumber

\* updateClient: findById, the pincode format, the TRN lookup, then the update.
UpdateClient(c, trn, pincodeOk) ==
    LET args == [id |-> c, trnNumber |-> trn] IN
    /\ logged' = NoComment
    /\ UNCHANGED <<browsers, projects, estimations, quotations, inflight, lpos, workCompletions, storage, mail>>
    /\ IF ~clients[c].exists
       THEN /\ response' = Response("updateClient", args, 404, Msg("Client not found"))
            /\ UNCHANGED clients
       ELSE IF ~pincodeOk
       THEN /\ response' = Response("updateClient", args, 400,
                Msg("Pincode must be 6 digits"))
            /\ UNCHANGED clients
       ELSE IF trn # None /\ trn # clients[c].trnNumber /\ OtherClientWithTrn(c, trn)
       THEN /\ response' = Response("updateClient", args, 400,
                Msg("Another client already uses this TRN"))
            /\ UNCHANGED clients
       ELSE /\ clients' = [clients EXCEPT ![c].trnNumber = UpdatedTrn(clients[c], trn)]
            /\ response' = Response("updateClient", args, 200,
                Msg("Client updated successfully"))

\* ----------------------------------------------------------- notifications

NoMail == [assignProject |-> None, markAsChecked |-> None]

\* mailer.sendEmail resolves (mailOk) or throws.
MailOutcome(mailOk) == IF mailOk THEN "sent" ELSE "failed"

\* A faulty variant of the handling: a failed send fails the request.
AfterMailPropagates(code, mailOk) == IF mailOk THEN code ELSE 500

\* try { await mailer.sendEmail(...) } catch { console.error(...) }: the status
\* of the response is the one of the state change.
AfterMail(code, mailOk) == code

\* ----------------------------------------------------------- project handlers

\* createProject: required fields, the client lookup, then the insert in draft.
CreateProject(client, fieldsPresent) ==
    LET args == [client |-> client] IN
    /\ logged' = NoComment
    /\ UNCHANGED <<browsers, clients, estimations, quotations, inflight, lpos, workCompletions, storage, mail>>
    /\ IF ~fieldsPresent \/ client = None
       THEN /\ response' = Response("createProject", args, 400,
                Msg("Required fields are missing"))
            /\ UNCHANGED projects
       ELSE IF ~clients[client].exists
       THEN /\ response' = Response("createProject", args, 404, Msg("Client not found"))
            /\ UNCHANGED projects
       ELSE /\ FreeProjectIds # {}
            /\ LET p == CHOOSE x \in FreeProjectIds : TRUE IN
               projects' = [projects EXCEPT ![p] =
                   [exists |-> TRUE, issued |-> TRUE, status |-> "draft",
                    progress |-> 0, client |-> client, assignedTo |-> None]]
            /\ response' = Response("createProject", args, 201,
                Msg("Project created successfully"))

\* The update validators of findByIdAndUpdate(..., {runValidators: true}):
\* the status enum and the progress range of projectSchema.
ProjectUpdateValid(body) ==
    /\ body.status # None => body.status \in StatusEnum
    /\ body.progress # NoNum => (body.progress >= 0 /\ body.progress <= 100)

\* updateProject: body is the request body, of which status and progress are modelled.
UpdateProject(p, body) ==
    LET args == [id |-> p, status |-> body.status] IN
    /\ logged' = NoComment
    /\ UNCHANGED <<browsers, clients, estimations, quotations, inflight, lpos, workCompletions, storage, mail>>
    /\ IF ~projects[p].exists
       THEN /\ response' = Response("updateProject", args, 404, Msg("Project not found"))
            /\ UNCHANGED projects
       ELSE IF body.progress # NoNum /\ (body.progress < 0 \/ body.progress > 100)
       THEN /\ response' = Response("updateProject", args, 400,
                Msg("Progress must be between 0 and 100"))
            /\ UNCHANGED projects
       ELSE IF body.status # None /\ ~TransitionAllowed(projects[p].status, body.status)
       THEN /\ response' = Response("updateProject", args, 400,
                InvalidTransitionMsg(projects[p].status, body.status))
            /\ UNCHANGED projects
       ELSE IF ~ProjectUpdateValid(body)
       THEN /\ response' = Response("updateProject", args, 500, Msg("Validation failed"))
            /\ UNCHANGED projects
       ELSE /\ projects' = [projects EXCEPT
                   ![p].status = IF body.status # None THEN body.status ELSE @,
                   ![p].progress = IF body.progress # NoNum THEN body.progress ELSE @]
            /\ response' = Response("updateProject", args, 200,
                Msg("Project updated successfully"))

\* updateProjectStatus: status is the requested status (None: not in the body).
UpdateProjectStatus(p, status) ==
    LET args == [id |-> p, status |-> status] IN
    /\ logged' = NoComment
    /\ UNCHANGED <<browsers, clients, estimations, quotations, inflight, lpos, workCompletions, storage, mail>>
    /\ IF status = None
       THEN /\ response' = Response("updateProjectStatus", args, 400,
                Msg("Status is required"))
            /\ UNCHANGED projects
       ELSE IF ~projects[p].exists
       THEN /\ response' = Response("updateProjectStatus", args, 404,
                Msg("Project not found"))
            /\ UNCHANGED projects
       ELSE IF ~TransitionAllowed(projects[p].status, status)
       THEN /\ response' = Response("updateProjectStatus", args, 400,
                InvalidTransitionMsg(projects[p].status, status))
            /\ UNCHANGED projects
       ELSE /\ projects' = [projects EXCEPT ![p].status = status]
            /\ response' = Response("updateProjectStatus", args, 200,
                Msg("Project status updated successfully"))

\* The status the loaded document carries after the two progress-driven
\* assignments (lines 413-418), which read the stored progress.
ProgressDrivenStatus(doc) ==
    LET s1 == IF doc.progress >= 0 /\ doc.status = "lpo_received"
              THEN "work_started" ELSE doc.status
    IN IF doc.progress > 0 /\ s1 = "work_started" THEN "in_progress" ELSE s1

\* A faulty variant of the update: work_completed is written only along an
\* edge of the transition table.
CompletedStatusListedOnly(local, progress) ==
    IF progress = 100 /\ local # "work_completed"
       /\ TransitionAllowed(local, "work_completed")
    THEN "work_completed" ELSE local

\* if (progress === 100 && project.status !== "work_completed")
\*     updateData.status = "work_completed"
CompletedStatus(local, progress) ==
    IF progress = 100 /\ local # "work_completed" THEN "work_completed" ELSE local

\* updateProjectProgress: project.save() writes the progress-driven status, then
\* findByIdAndUpdate writes the progress and, at 100, work_completed.
UpdateProjectProgress(p, progress) ==
    LET args == [id |-> p, progress |-> progress] IN
    /\ UNCHANGED <<browsers, clients, estimations, quotations, inflight, lpos, workCompletions, storage, mail>>
    /\ IF progress = NoNum \/ progress < 0 \/ progress > 100
       THEN /\ response' = Response("updateProjectProgress", args, 400,
                Msg("Progress must be between 0 and 100"))
            /\ logged' = NoComment
            /\ UNCHANGED projects
       ELSE IF ~projects[p].exists
       THEN /\ response' = Response("updateProjectProgress", args, 404,
                Msg("Project not found"))
            /\ logged' = NoComment
            /\ UNCHANGED projects
       ELSE LET local == ProgressDrivenStatus(projects[p])
                final == CompletedStatus(local, progress)
            IN /\ logged' = IF progress # projects[p].progress
                               THEN CommentEntry("progress_update", p) ELSE NoComment
               /\ projects' = [projects EXCEPT ![p].status = final,
                                               ![p].progress = progress]
               /\ response' = Response("updateProjectProgress", args, 200,
                    Msg("Project progress updated successfully"))

\* assignProject: the engineer is stored on the project, then the notification.
AssignProject(p, assignedTo, mailOk) ==
    LET args == [id |-> p, assignedTo |-> assignedTo] IN
    /\ logged' = NoComment
    /\ UNCHANGED <<browsers, clients, estimations, quotations, inflight, lpos,
                   workCompletions, storage>>
    /\ IF assignedTo = None
       THEN /\ response' = Response("assignProject", args, 400,
                Msg("AssignedTo is required"))
            /\ UNCHANGED <<projects, mail>>
       ELSE IF ~projects[p].exists
       THEN /\ response' = Response("assignProject", args, 400, Msg("Project not found"))
            /\ UNCHANGED <<projects, mail>>
       ELSE IF assignedTo \notin Users
       THEN /\ response' = Response("assignProject", args, 400, Msg("Engineer not found"))
            /\ UNCHANGED <<projects, mail>>
       ELSE /\ projects' = [projects EXCEPT ![p].assignedTo = assignedTo]
            /\ mail' = [mail EXCEPT !.assignProject = MailOutcome(mailOk)]
            /\ response' = Response("assignProject", args, AfterMail(200, mailOk),
                IF mailOk
                THEN Msg("Project assigned and notification sent successfully")
                ELSE Msg("Project assigned successfully but notification email failed to send"))

\* A faulty variant of the guard: a project is deleted in every status.
DeletableAlways(doc) == TRUE

\* The guard of deleteProject: project.status !== "draft" refuses the deletion.
Deletable(doc) == doc.status = "draft"

\* deleteProject: only a draft project is removed.
DeleteProject(p) ==
    LET args == [id |-> p] IN
    /\ logged' = NoComment
    /\ UNCHANGED <<browsers, clients, estimations, quotations, inflight, lpos, workCompletions, storage, mail>>
    /\ IF ~projects[p].exists
       THEN /\ response' = Response("deleteProject", args, 404, Msg("Project not found"))
            /\ UNCHANGED projects
       ELSE IF ~Deletable(projects[p])
       THEN /\ response' = Response("deleteProject", args, 400,
                Msg("Cannot delete project that has already started"))
            /\ UNCHANGED projects
       ELSE /\ projects' = [projects EXCEPT ![p].exists = FALSE]
            /\ response' = Response("deleteProject", args, 200,
                Msg("Project deleted successfully"))

\* --------------------------------------------------------- estimation documents

\* A stored line item.  a/b are quantity/unitPrice (materials, terms) or
\* days/price (labour); total is the stored total.
Item(a, b, total) == [a |-> a, b |-> b, total |-> total]

\* A line item of a request body: the label (description or designation) and
\* the uom are present or not; a, b and total are numbers or NoNum.
ReqItem(label, uom, a, b, total) ==
    [label |-> label, uom |-> uom, a |-> a, b |-> b, total |-> total]

NoEstimation ==
    [exists |-> FALSE, project |-> None,
     materials |-> <<>>, labour |-> <<>>, termsAndConditions |-> <<>>,
     estimatedAmount |-> 0, quotationAmount |-> NoNum,
     commissionAmount |-> NoNum, profit |-> NoNum,
     isChecked |-> FALSE, isApproved |-> FALSE,
     checkedBy |-> None, approvedBy |-> None, approvalComment |-> None]

FreeEstimationIds == {e \in EstimationIds : ~estimations[e].exists}

\* A faulty variant of the lookup: the query matches no document.
EstimationsOfNone(p) == {}

\* Estimation.findOne({project}): the ids of the estimations of a project.
EstimationsOf(p) ==
    {e \in EstimationIds : estimations[e].exists /\ estimations[e].project = p}

\* JavaScript truthiness of a numeric value: undefined and 0 are falsy.
Truthy(n) == n # NoNum /\ n # 0

\* items.reduce((sum, item) => sum + (item.total || 0), 0)
RECURSIVE SumTotals(_)
SumTotals(items) ==
    IF items = <<>> THEN 0
    ELSE (IF Truthy(Head(items).total) THEN Head(items).total ELSE 0)
         + SumTotals(Tail(items))

\* estimationSchema.pre("save"): estimatedAmount is the sum of the item totals;
\* profit is recomputed when quotationAmount is truthy and kept otherwise.
PreSave(doc) ==
    LET amount == SumTotals(doc.materials) + SumTotals(doc.labour)
                  + SumTotals(doc.termsAndConditions)
    IN [doc EXCEPT
          !.estimatedAmount = amount,
          !.profit = IF Truthy(doc.quotationAmount)
                     THEN doc.quotationAmount - amount
                          - (IF Truthy(doc.commissionAmount)
                             THEN doc.commissionAmount ELSE 0)
                     ELSE @]

\* The schema's validators of a line item at save: the label, a, b and total
\* are required and a, b, total have min 0.
ItemValid(item) ==
    /\ item.label
    /\ item.a # NoNum /\ item.a >= 0
    /\ item.b # NoNum /\ item.b >= 0
    /\ item.total # NoNum /\ item.total >= 0

\* The document fields a request item is stored as (uom is no schema path).
Stored(items) == [i \in DOMAIN items |-> Item(items[i].a, items[i].b, items[i].total)]

\* The validators of the top-level amounts: min 0 where present.
AmountValid(n) == n = NoNum \/ n >= 0

\* A faulty variant of the index: the project path is not unique.
UniqueProjectIndexOff(p) == TRUE

\* The unique index on estimationSchema.project: an insert for a project that
\* already has an estimation is refused with a duplicate-key error.
UniqueProjectIndex(p) == EstimationsOf(p) = {}

\* --------------------------------------------------------- estimation handlers

\* The checks of createEstimation on a material or terms item, and on a labour item.
MaterialItemOk(item) == item.label /\ item.uom /\ item.a # NoNum /\ item.b # NoNum

LabourItemOk(item) == item.label /\ item.a # NoNum /\ item.b # NoNum

\* item.total = item.quantity * item.unitPrice (item.days * item.price), every item.
Priced(items) == [i \in DOMAIN items |-> [items[i] EXCEPT !.total = items[i].a * items[i].b]]

\* The item checks of createEstimation in their order: the message of the
\* first one that throws, Msg(None) when none does.
CreateEstimationItemError(body) ==
    IF ~(\A i \in DOMAIN body.materials : MaterialItemOk(body.materials[i]))
    THEN Msg("Material items require description, uom, quantity, and unitPrice")
    ELSE IF ~(\A i \in DOMAIN body.labour : LabourItemOk(body.labour[i]))
    THEN Msg("Labour items require designation, days, and price")
    ELSE IF ~(\A i \in DOMAIN body.termsAndConditions : MaterialItemOk(body.termsAndConditions[i]))
    THEN Msg("Terms items require description, uom, quantity, and unitPrice")
    ELSE IF body.materials = <<>> /\ body.labour = <<>> /\ body.termsAndConditions = <<>>
    THEN Msg("At least one item (materials, labour, or terms) is required")
    ELSE Msg(None)

\* The items of the body as createEstimation hands them to Estimation.create.
CreateEstimationItems(body) ==
    [materials |-> Priced(body.materials), labour |-> Priced(body.labour),
     termsAndConditions |-> Priced(body.termsAndConditions)]

\* Schema validation of the document Estimation.create builds.
CreateEstimationValid(body) ==
    LET items == CreateEstimationItems(body) IN
    /\ (\A i \in DOMAIN items.materials : ItemValid(items.materials[i]))
    /\ (\A i \in DOMAIN items.labour : ItemValid(items.labour[i]))
    /\ (\A i \in DOMAIN items.termsAndConditions : ItemValid(items.termsAndConditions[i]))
    /\ AmountValid(body.quotationAmount)
    /\ AmountValid(body.commissionAmount)

\* The document Estimation.create saves (the pre-save hook included).
NewEstimation(body) ==
    LET items == CreateEstimationItems(body) IN
    PreSave([NoEstimation EXCEPT
        !.exists = TRUE,
        !.project = body.project,
        !.materials = Stored(items.materials),
        !.labour = Stored(items.labour),
        !.termsAndConditions = Stored(items.termsAndConditions),
        !.quotationAmount = body.quotationAmount,
        !.commissionAmount = body.commissionAmount])

\* Project.findByIdAndUpdate(id, {status}): no document, no write.
WithProjectStatus(p, status) ==
    IF p \in ProjectIds /\ projects[p].exists
    THEN [projects EXCEPT ![p].status = status]
    ELSE projects

OnlyOneEstimationMsg ==
    Msg("Only one estimation is allowed per project. Update the existing estimation instead.")

\* createEstimation, run without interruption.
CreateEstimation(body) ==
    LET args == [project |-> body.project, required |-> body.required] IN
    /\ logged' = NoComment
    /\ UNCHANGED <<browsers, clients, quotations, inflight, lpos, workCompletions, storage, mail>>
    /\ IF body.project = None \/ ~body.required
       THEN /\ response' = Response("createEstimation", args, 400,
                Msg("Required fields are missing"))
            /\ UNCHANGED <<estimations, projects>>
       ELSE IF EstimationsOf(body.project) # {}
       THEN /\ response' = Response("createEstimation", args, 400, OnlyOneEstimationMsg)
            /\ UNCHANGED <<estimations, projects>>
       ELSE IF CreateEstimationItemError(body) # Msg(None)
       THEN /\ response' = Response("createEstimation", args, 400,
                CreateEstimationItemError(body))
            /\ UNCHANGED <<estimations, projects>>
       ELSE IF ~CreateEstimationValid(body)
       THEN /\ response' = Response("createEstimation", args, 500,
                Msg("Validation failed"))
            /\ UNCHANGED <<estimations, projects>>
       ELSE IF ~UniqueProjectIndex(body.project)
       THEN /\ response' = Response("createEstimation", args, 500,
                Msg("E11000 duplicate key error"))
            /\ UNCHANGED <<estimations, projects>>
       ELSE /\ FreeEstimationIds # {}
            /\ LET e == CHOOSE x \in FreeEstimationIds : TRUE IN
               estimations' = [estimations EXCEPT ![e] = NewEstimation(body)]
            /\ projects' = WithProjectStatus(body.project, "estimation_prepared")
            /\ response' = Response("createEstimation", args, 201,
                Msg("Estimation created successfully"))

Rejection(code, msg) == [code |-> code, msg |-> msg]

NoRejection == Rejection(0, Msg(None))

\* A faulty variant of the guard: the check of isChecked is missing.
ApproveEstimationRejectionUnchecked(doc, isApproved) ==
    IF isApproved = None
    THEN Rejection(400, Msg("isApproved must be a boolean"))
    ELSE IF ~doc.exists
    THEN Rejection(404, Msg("Estimation not found"))
    ELSE IF doc.isApproved /\ isApproved = "true"
    THEN Rejection(400, Msg("Estimation is already approved"))
    ELSE NoRejection

\* The input check, the lookup and the prerequisites of approveEstimation, in
\* their order: the error thrown, NoRejection when none is.
ApproveEstimationRejection(doc, isApproved) ==
    IF isApproved = None
    THEN Rejection(400, Msg("isApproved must be a boolean"))
    ELSE IF ~doc.exists
    THEN Rejection(404, Msg("Estimation not found"))
    ELSE IF ~doc.isChecked
    THEN Rejection(400, Msg("Estimation must be checked before approval/rejection"))
    ELSE IF doc.isApproved /\ isApproved = "true"
    THEN Rejection(400, Msg("Estimation is already approved"))
    ELSE NoRejection

\* A faulty variant of the order: the activity log is written before the checks.
RefusedLogEarly(entry) == entry

\* What a refused approveEstimation has appended to the activity log: nothing,
\* Comment.create comes after the last check.
RefusedLog(entry) == NoComment

\* approveEstimation by user u; isApproved is "true", "false" or None (no boolean).
ApproveEstimation(e, u, isApproved, comment) ==
    LET args == [id |-> e, user |-> u, isApproved |-> isApproved]
        doc == estimations[e]
        rejection == ApproveEstimationRejection(doc, isApproved)
    IN
    /\ UNCHANGED <<browsers, clients, quotations, inflight, lpos, workCompletions, storage, mail>>
    /\ IF rejection # NoRejection
       THEN /\ response' = Response("approveEstimation", args,
                                    rejection.code, rejection.msg)
            /\ logged' = RefusedLog(CommentEntry(
                    IF isApproved = "true" THEN "approval" ELSE "rejection",
                    doc.project))
            /\ UNCHANGED <<estimations, projects>>
       ELSE /\ logged' = CommentEntry(IF isApproved = "true" THEN "approval"
                                       ELSE "rejection", doc.project)
            /\ estimations' = [estimations EXCEPT ![e] = PreSave([doc EXCEPT
                    !.isApproved = (isApproved = "true"),
                    !.approvedBy = IF isApproved = "true" THEN u ELSE None,
                    !.approvalComment = comment])]
            /\ projects' = WithProjectStatus(doc.project,
                    IF isApproved = "true" THEN "quotation_approved"
                    ELSE "quotation_rejected")
            /\ response' = Response("approveEstimation", args, 200,
                IF isApproved = "true" THEN Msg("Estimation approved successfully")
                ELSE Msg("Estimation rejected successfully"))

\* markAsChecked by user u; isChecked is "true", "false" or None (no boolean).
MarkAsChecked(e, u, isChecked, comment, mailOk) ==
    LET args == [id |-> e, user |-> u, isChecked |-> isChecked]
        doc == estimations[e]
    IN
    /\ UNCHANGED <<browsers, clients, quotations, inflight, lpos, workCompletions, storage>>
    /\ mail' = IF isChecked = "true" /\ doc.exists /\ ~doc.isChecked
               THEN [mail EXCEPT !.markAsChecked = MailOutcome(mailOk)]
               ELSE mail
    /\ IF isChecked = None
       THEN /\ response' = Response("markAsChecked", args, 400,
                Msg("isChecked must be a boolean"))
            /\ logged' = NoComment
            /\ UNCHANGED <<estimations, projects>>
       ELSE IF ~doc.exists
       THEN /\ response' = Response("markAsChecked", args, 404,
                Msg("Estimation not found"))
            /\ logged' = NoComment
            /\ UNCHANGED <<estimations, projects>>
       ELSE IF doc.isChecked /\ isChecked = "true"
       THEN /\ response' = Response("markAsChecked", args, 400,
                Msg("Estimation is already checked"))
            /\ logged' = NoComment
            /\ UNCHANGED <<estimations, projects>>
       ELSE /\ logged' = CommentEntry(IF isChecked = "true" THEN "check"
                                       ELSE "rejection", doc.project)
            /\ estimations' = [estimations EXCEPT ![e] = PreSave([doc EXCEPT
                    !.isChecked = (isChecked = "true"),
                    !.checkedBy = IF isChecked = "true" THEN u ELSE None,
                    !.approvalComment = IF comment # None THEN comment ELSE @])]
            /\ projects' = IF isChecked = "true" THEN projects
                           ELSE WithProjectStatus(doc.project, "draft")
            /\ response' = Response("markAsChecked", args,
                IF isChecked = "true" THEN AfterMail(200, mailOk) ELSE 200,
                IF isChecked = "true" THEN Msg("Estimation checked successfully")
                ELSE Msg("Estimation rejected successfully"))

\* deleteEstimation: an approved estimation is not deleted.
DeleteEstimation(e) ==
    LET args == [id |-> e] IN
    /\ logged' = NoComment
    /\ UNCHANGED <<browsers, clients, projects, quotations, inflight, lpos, workCompletions, storage, mail>>
    /\ IF ~estimations[e].exists
       THEN /\ response' = Response("deleteEstimation", args, 404,
                Msg("Estimation not found"))
            /\ UNCHANGED estimations
       ELSE IF estimations[e].isApproved
       THEN /\ response' = Response("deleteEstimation", args, 400,
                Msg("Cannot delete approved estimation"))
            /\ UNCHANGED estimations
       ELSE /\ estimations' = [estimations EXCEPT ![e] = NoEstimation]
            /\ response' = Response("deleteEstimation", args, 200,
                Msg("Estimation deleted successfully"))

\* if (item.quantity && item.unitPrice) item.total = item.quantity * item.unitPrice:
\* an item with a falsy factor keeps the total the request carries.
Repriced(items) ==
    [i \in DOMAIN items |->
        IF Truthy(items[i].a) /\ Truthy(items[i].b)
        THEN [items[i] EXCEPT !.total = items[i].a * items[i].b]
        ELSE items[i]]

HasUom(item) == item.uom

\* estimation.set(updateData) after the reset of the checked flag.  isApproved,
\* approvedBy, estimatedAmount and profit are deleted from the body before.
SetFields(doc, body) ==
    [doc EXCEPT
        !.materials = IF "materials" \in body.fields
                      THEN Stored(Repriced(body.materials)) ELSE @,
        !.labour = IF "labour" \in body.fields
                   THEN Stored(Repriced(body.labour)) ELSE @,
        !.termsAndConditions = IF "termsAndConditions" \in body.fields
                               THEN Stored(Repriced(body.termsAndConditions)) ELSE @,
        !.quotationAmount = IF "quotationAmount" \in body.fields
                            THEN body.quotationAmount ELSE @,
        !.commissionAmount = IF "commissionAmount" \in body.fields
                             THEN body.commissionAmount ELSE @,
        !.isChecked = IF "isChecked" \in body.fields THEN body.isChecked ELSE @]

\* if (estimation.isChecked) { isChecked = false; checkedBy = approvalComment = undefined }
ResetChecked(doc) ==
    IF doc.isChecked
    THEN [doc EXCEPT !.isChecked = FALSE, !.checkedBy = None, !.approvalComment = None]
    ELSE doc

\* Schema validation of the paths updateEstimation modified.
UpdateEstimationValid(body) ==
    /\ "materials" \in body.fields => (\A i \in DOMAIN Repriced(body.materials) : ItemValid(Repriced(body.materials)[i]))
    /\ "labour" \in body.fields => (\A i \in DOMAIN Repriced(body.labour) : ItemValid(Repriced(body.labour)[i]))
    /\ "termsAndConditions" \in body.fields =>
            (\A i \in DOMAIN Repriced(body.termsAndConditions) : ItemValid(Repriced(body.termsAndConditions)[i]))
    /\ "quotationAmount" \in body.fields => AmountValid(body.quotationAmount)
    /\ "commissionAmount" \in body.fields => AmountValid(body.commissionAmount)

\* updateEstimation with request body `body`.
UpdateEstimation(e, body) ==
    LET args == [id |-> e]
        doc == estimations[e]
    IN
    /\ logged' = NoComment
    /\ UNCHANGED <<browsers, clients, projects, quotations, inflight, lpos, workCompletions, storage, mail>>
    /\ IF ~doc.exists
       THEN /\ response' = Response("updateEstimation", args, 404,
                Msg("Estimation not found"))
            /\ UNCHANGED estimations
       ELSE IF doc.isApproved
       THEN /\ response' = Response("updateEstimation", args, 400,
                Msg("Cannot update approved estimation"))
            /\ UNCHANGED estimations
       ELSE IF "materials" \in body.fields /\ ~(\A i \in DOMAIN body.materials : HasUom(body.materials[i]))
       THEN /\ response' = Response("updateEstimation", args, 400,
                Msg("UOM is required for material items"))
            /\ UNCHANGED estimations
       ELSE IF "termsAndConditions" \in body.fields
               /\ ~(\A i \in DOMAIN body.termsAndConditions : HasUom(body.termsAndConditions[i]))
       THEN /\ response' = Response("updateEstimation", args, 400,
                Msg("UOM is required for terms items"))
            /\ UNCHANGED estimations
       ELSE IF ~UpdateEstimationValid(body)
       THEN /\ response' = Response("updateEstimation", args, 500,
                Msg("Validation failed"))
            /\ UNCHANGED estimations
       ELSE /\ estimations' = [estimations EXCEPT
                    ![e] = PreSave(SetFields(ResetChecked(doc), body))]
            /\ response' = Response("updateEstimation", args, 200,
                Msg("Estimation updated successfully"))

\* ---------------------------------------------------------- quotation handlers

\* vatPercentage = 5 in the destructuring of the request data.
DefaultVatPercentage == 5

\* A stored quotation item: quantity, unitPrice, totalPrice and whether an
\* uploaded image is attached.
QuotationItem(quantity, unitPrice, totalPrice, image) ==
    [quantity |-> quantity, unitPrice |-> unitPrice,
     totalPrice |-> totalPrice, image |-> image]

NoQuotation ==
    [exists |-> FALSE, project |-> None, estimation |-> None,
     quotationNumber |-> 0, items |-> <<>>, vatPercentage |-> NoNum,
     subtotal |-> 0, vatAmount |-> 0, total |-> 0,
     isApproved |-> None, approvedBy |-> None]

FreeQuotationIds == {q \in QuotationIds : ~quotations[q].exists}

\* Quotation.findOne({project}).
QuotationsOf(p) ==
    {q \in QuotationIds : quotations[q].exists /\ quotations[q].project = p}

\* generateQuotationNumber: the sequence part, countDocuments() + 1.
GenerateQuotationNumber == Cardinality({q \in QuotationIds : quotations[q].exists}) + 1

\* NaN: the product of an undefined factor.
IsNaN(item) == item.quantity = NoNum \/ item.unitPrice = NoNum

\* The items after the map of createQuotation: the image attached when a file
\* for the item was uploaded, and totalPrice = quantity * unitPrice.
ProcessedItems(items, uploaded) ==
    [i \in DOMAIN items |->
        QuotationItem(items[i].quantity, items[i].unitPrice,
            IF IsNaN(items[i]) THEN NoNum ELSE items[i].quantity * items[i].unitPrice,
            items[i].image /\ uploaded)]

\* processedItems.reduce((sum, item) => sum + item.totalPrice, 0)
RECURSIVE Subtotal(_)
Subtotal(items) ==
    IF items = <<>> THEN 0 ELSE Head(items).totalPrice + Subtotal(Tail(items))

\* A faulty variant of the computation: the VAT percentage of the request is ignored.
QuotationTotalsFixedVat(items, vatPercentage) ==
    LET subtotal == Subtotal(items)
        vatAmount == (subtotal * DefaultVatPercentage) \div 100
    IN [subtotal |-> subtotal, vatAmount |-> vatAmount, total |-> subtotal + vatAmount]

\* subtotal, vatAmount = subtotal * (vatPercentage / 100), total.  The model's
\* prices make subtotal * vatPercentage a multiple of 100, so \div is exact.
QuotationTotals(items, vatPercentage) ==
    LET subtotal == Subtotal(items)
        vatAmount == (subtotal * vatPercentage) \div 100
    IN [subtotal |-> subtotal, vatAmount |-> vatAmount, total |-> subtotal + vatAmount]

\* Quotation.create: the document as stored.  The schema is not part of the
\* sources at hand; the fields are stored as the handler passes them.
QuotationCreate(fields) == [NoQuotation EXCEPT
        !.exists = TRUE,
        !.project = fields.project,
        !.estimation = fields.estimation,
        !.quotationNumber = fields.quotationNumber,
        !.items = fields.items,
        !.vatPercentage = fields.vatPercentage,
        !.subtotal = fields.subtotal,
        !.vatAmount = fields.vatAmount,
        !.total = fields.total]

\* The files uploadItemImage stores for the items of a request: one per item
\* that comes with an image file, when the upload returns its upload data.
UploadedKeys(owner, items, uploaded) ==
    IF uploaded
    THEN {StorageKey(owner, i) : i \in {j \in DOMAIN items : items[j].image}}
    ELSE {}

\* A faulty variant of the lookup: the query matches no quotation.
QuotationExistsNever(p) == FALSE

\* const exists = await Quotation.findOne({project: projectId})
QuotationExists(p) == QuotationsOf(p) # {}

\* createQuotation.  body.malformed names the request-shape check that fails
\* (None: none); uploaded says whether the image uploads return upload data.
CreateQuotation(body, uploaded) ==
    LET args == [project |-> body.project, vatPercentage |-> body.vatPercentage,
                 malformed |-> body.malformed, items |-> body.items]
        vat == IF body.vatPercentage = NoNum THEN DefaultVatPercentage
               ELSE body.vatPercentage
        items == ProcessedItems(body.items, uploaded)
    IN
    /\ logged' = NoComment
    /\ UNCHANGED <<browsers, clients, estimations, inflight, lpos, workCompletions, mail>>
    /\ IF body.malformed = "files"
       THEN /\ response' = Response("createQuotation", args, 400,
                Msg("No files were uploaded"))
            /\ UNCHANGED <<quotations, projects, storage>>
       ELSE IF body.malformed = "json"
       THEN /\ response' = Response("createQuotation", args, 400,
                Msg("Invalid JSON data format"))
            /\ UNCHANGED <<quotations, projects, storage>>
       ELSE IF body.malformed = "items"
       THEN /\ response' = Response("createQuotation", args, 400,
                Msg("Items must be an array"))
            /\ UNCHANGED <<quotations, projects, storage>>
       ELSE IF QuotationExists(body.project)
       THEN /\ response' = Response("createQuotation", args, 400,
                Msg("Project already has a quotation"))
            /\ UNCHANGED <<quotations, projects, storage>>
       ELSE IF \E i \in DOMAIN body.items : IsNaN(body.items[i])
       THEN /\ response' = Response("createQuotation", args, 500,
                Msg("Validation failed"))
            /\ storage' = storage \cup UploadedKeys("orphan", body.items, uploaded)
            /\ UNCHANGED <<quotations, projects>>
       ELSE /\ FreeQuotationIds # {}
            /\ LET q == CHOOSE x \in FreeQuotationIds : TRUE
                   totals == QuotationTotals(items, vat)
                   linked == EstimationsOf(body.project)
               IN /\ storage' = storage \cup UploadedKeys(q, body.items, uploaded)
                  /\ quotations' = [quotations EXCEPT ![q] = QuotationCreate(
                        [project |-> body.project,
                         estimation |-> IF linked = {} THEN None
                                        ELSE CHOOSE e \in linked : TRUE,
                         quotationNumber |-> GenerateQuotationNumber,
                         items |-> items,
                         vatPercentage |-> vat,
                         subtotal |-> totals.subtotal,
                         vatAmount |-> totals.vatAmount,
                         total |-> totals.total])]
            /\ projects' = WithProjectStatus(body.project, "quotation_sent")
            /\ response' = Response("createQuotation", args, 201,
                Msg("Quotation created"))

\* approveQuotation: findByIdAndUpdate on the quotation, then the project's
\* status is set from the truthiness of isApproved ("true", "false" or None).
ApproveQuotation(q, u, isApproved) ==
    LET args == [id |-> q, isApproved |-> isApproved] IN
    /\ logged' = NoComment
    /\ UNCHANGED <<browsers, clients, estimations, inflight, lpos, workCompletions, storage, mail>>
    /\ quotations' = IF quotations[q].exists
                     THEN [quotations EXCEPT
                            ![q].isApproved = IF isApproved = None THEN @ ELSE isApproved,
                            ![q].approvedBy = u]
                     ELSE quotations
    /\ projects' = IF quotations[q].exists
                   THEN WithProjectStatus(quotations[q].project,
                            IF isApproved = "true" THEN "quotation_approved"
                            ELSE "quotation_rejected")
                   ELSE projects
    /\ response' = Response("approveQuotation", args, 200,
            IF isApproved = "true" THEN Msg("Quotation approved")
            ELSE Msg("Quotation rejected"))

\* quotation.save(): the totals of the stored items.  The schema and its
\* pre-save hook are not part of the sources at hand.
QuotationSave(doc) ==
    LET totals == QuotationTotals(doc.items, doc.vatPercentage) IN
    [doc EXCEPT !.subtotal = totals.subtotal, !.vatAmount = totals.vatAmount,
                !.total = totals.total]

\* updateQuotation: findById, then the items of the body (hasItems) replace
\* the stored ones, each with its uploaded image and its totalPrice, and the
\* document is saved.
UpdateQuotation(q, hasItems, items, uploaded) ==
    LET args == [id |-> q, items |-> IF hasItems THEN items ELSE <<>>] IN
    /\ logged' = NoComment
    /\ UNCHANGED <<browsers, clients, projects, estimations, inflight, lpos,
                   workCompletions, mail>>
    /\ IF ~quotations[q].exists
       THEN /\ response' = Response("updateQuotation", args, 404,
                Msg("Quotation not found"))
            /\ UNCHANGED <<quotations, storage>>
       ELSE IF ~hasItems
       THEN /\ quotations' = [quotations EXCEPT ![q] = QuotationSave(@)]
            /\ response' = Response("updateQuotation", args, 200, Msg("Quotation updated"))
            /\ UNCHANGED storage
       ELSE IF \E i \in DOMAIN items : IsNaN(items[i])
       THEN /\ response' = Response("updateQuotation", args, 500,
                Msg("Validation failed"))
            /\ storage' = storage \cup UploadedKeys(q, items, uploaded)
            /\ UNCHANGED quotations
       ELSE /\ storage' = storage \cup UploadedKeys(q, items, uploaded)
            /\ quotations' = [quotations EXCEPT ![q] =
                    QuotationSave([@ EXCEPT !.items = ProcessedItems(items, uploaded)])]
            /\ response' = Response("updateQuotation", args, 200, Msg("Quotation updated"))

\* A faulty variant of the update: the project goes back to draft.
RevertedStatusDraft == "draft"

\* The status deleteQuotation writes on the quotation's project.
RevertedStatus == "estimation_prepared"

\* deleteQuotation: findByIdAndDelete, the images' removal from storage, then
\* the project's status.  storageOk: the removals succeed.  deleteFileFromS3 is
\* not part of the sources at hand; it resolves with a success flag, which
\* this handler does not read, and a file whose removal fails stays in storage.
DeleteQuotation(q, storageOk) ==
    LET args == [id |-> q]
        doc == quotations[q]
    IN
    /\ logged' = NoComment
    /\ UNCHANGED <<browsers, clients, estimations, inflight, lpos, workCompletions, mail>>
    /\ IF ~doc.exists
       THEN /\ response' = Response("deleteQuotation", args, 404,
                Msg("Quotation not found"))
            /\ UNCHANGED <<quotations, projects, storage>>
       ELSE /\ quotations' = [quotations EXCEPT ![q] = NoQuotation]
            /\ storage' = IF storageOk
                          THEN storage \ {StorageKey(q, i) : i \in DOMAIN doc.items}
                          ELSE storage
            /\ projects' = WithProjectStatus(doc.project, RevertedStatus)
            /\ response' = Response("deleteQuotation", args, 200,
                Msg("Quotation deleted"))

\* ------------------------------------------------------------- invoice data

\* An LPO document is stored for project p.  The handlers of the LPO routes
\* are not part of the sources at hand; the LPO collection is all they write here.
StoreLPO(p) ==
    /\ p \notin lpos
    /\ lpos' = lpos \cup {p}
    /\ response' = Response("createLPO", [project |-> p], 201, Msg("LPO created"))
    /\ logged' = NoComment
    /\ UNCHANGED <<browsers, clients, projects, estimations, quotations, inflight,
                   workCompletions, storage, mail>>

\* quotation.items of the quotation Quotation.findOne({project}) returns.
InvoiceQuotationItems(p) ==
    LET q == CHOOSE x \in QuotationsOf(p) : TRUE IN quotations[q].items

\* A faulty variant of the checks: the LPO is looked up before the quotation.
InvoiceRejectionLpoFirst(p) ==
    IF p = None THEN Rejection(400, Msg("Valid project ID is required"))
    ELSE IF ~projects[p].exists THEN Rejection(404, Msg("Project not found"))
    ELSE IF p \notin lpos THEN Rejection(404, Msg("LPO not found for this project"))
    ELSE IF QuotationsOf(p) = {}
    THEN Rejection(404, Msg("Quotation not found for this project"))
    ELSE IF InvoiceQuotationItems(p) = <<>>
    THEN Rejection(400, Msg("Quotation items are required"))
    ELSE NoRejection

\* The checks of generateInvoiceData in their order: the id, the project, the
\* quotation, the LPO, the quotation's items.
InvoiceRejection(p) ==
    IF p = None THEN Rejection(400, Msg("Valid project ID is required"))
    ELSE IF ~projects[p].exists THEN Rejection(404, Msg("Project not found"))
    ELSE IF QuotationsOf(p) = {}
    THEN Rejection(404, Msg("Quotation not found for this project"))
    ELSE IF p \notin lpos THEN Rejection(404, Msg("LPO not found for this project"))
    ELSE IF InvoiceQuotationItems(p) = <<>>
    THEN Rejection(400, Msg("Quotation items are required"))
    ELSE NoRejection

\* generateInvoiceData: lean reads only.  The populated client of a deleted
\* client is null, and reading its name throws.
GenerateInvoiceData(p) ==
    LET args == [id |-> p]
        refused == InvoiceRejection(p)
    IN
    /\ logged' = NoComment
    /\ UNCHANGED <<browsers, clients, projects, estimations, quotations, inflight,
                   lpos, workCompletions, storage, mail>>
    /\ IF refused # NoRejection
       THEN response' = Response("generateInvoiceData", args, refused.code, refused.msg)
       ELSE IF ~clients[projects[p].client].exists
       THEN response' = Response("generateInvoiceData", args, 500,
                Msg("Cannot read properties of null"))
       ELSE response' = Response("generateInvoiceData", args, 200,
                Msg("Invoice data generated successfully"))

\* ---------------------------------------------------- work completion handlers

FreeWorkCompletionIds == {w \in WorkCompletionIds : ~workCompletions[w].exists}

\* The documents WorkCompletion.findOne({project}) matches.
WorkCompletionsOf(p) ==
    {w \in WorkCompletionIds : workCompletions[w].exists /\ workCompletions[w].project = p}

\* The document findOne returns: the one stored first.  Ids are handed out in
\* order and no handler removes a work completion.
FirstWorkCompletion(p) ==
    IF "w1" \in WorkCompletionsOf(p) THEN "w1"
    ELSE CHOOSE w \in WorkCompletionsOf(p) : TRUE

\* createWorkCompletion: the project must exist; no look-up of an earlier record.
CreateWorkCompletion(p, u) ==
    LET args == [project |-> p, user |-> u] IN
    /\ logged' = NoComment
    /\ UNCHANGED <<browsers, clients, projects, estimations, quotations, inflight,
                   lpos, storage, mail>>
    /\ IF p = None
       THEN /\ response' = Response("createWorkCompletion", args, 400,
                Msg("Project ID is required"))
            /\ UNCHANGED workCompletions
       ELSE IF ~projects[p].exists
       THEN /\ response' = Response("createWorkCompletion", args, 404,
                Msg("Project not found"))
            /\ UNCHANGED workCompletions
       ELSE /\ FreeWorkCompletionIds # {}
            /\ LET w == IF "w1" \in FreeWorkCompletionIds THEN "w1"
                        ELSE CHOOSE x \in FreeWorkCompletionIds : TRUE
               IN workCompletions' = [workCompletions EXCEPT ![w] =
                    [exists |-> TRUE, project |-> p, createdBy |-> u, images |-> <<>>]]
            /\ response' = Response("createWorkCompletion", args, 201,
                Msg("Work completion created successfully"))

\* The titles field of the request body: absent, one string, or an array.
\* value holds the strings sent: none, the one string, or the array's elements.
Titles(kind, value) == [kind |-> kind, value |-> value]

\* titles = [] by default; Array.isArray(titles) ? titles : [titles].
TitlesArray(titles) ==
    IF titles.kind = "absent" THEN <<>>
    ELSE IF titles.kind = "string" THEN <<titles.value[1]>>
    ELSE titles.value

\* A faulty variant of the check: only missing titles are refused.
TitlesMismatchTooFew(titlesArray, nFiles) == Len(titlesArray) < nFiles

\* titlesArray.length !== files.length
TitlesMismatch(titlesArray, nFiles) == Len(titlesArray) # nFiles

\* !title || typeof title !== "string" || !title.trim()
TitleEmpty(title) == title \in {"", " "}

\* The storage slots of document w that hold no file, and the n lowest of them.
FreeSlots(w) == {i \in 1..MaxImages : StorageKey(w, i) \notin storage}

RECURSIVE LowestSlots(_, _)
LowestSlots(slots, n) ==
    IF n = 0 THEN <<>>
    ELSE LET m == CHOOSE i \in slots : \A j \in slots : i <= j
         IN <<m>> \o LowestSlots(slots \ {m}, n - 1)

\* files.map(...): one image per file, with its title and its storage key.
NewImages(w, titlesArray, nFiles) ==
    LET slots == LowestSlots(FreeSlots(w), nFiles) IN
    [i \in 1..nFiles |-> WorkCompletionImage(titlesArray[i], StorageKey(w, slots[i]))]

\* A faulty variant of the check: every user may change the images.
NotOwnerNever(doc, u) == FALSE

\* workCompletion.createdBy.toString() !== req.user?.userId
NotOwner(doc, u) == doc.createdBy # u

\* uploadWorkCompletionImages.  uploadOk: the upload returns its upload data.
UploadWorkCompletionImages(p, u, nFiles, titles, uploadOk) ==
    LET args == [project |-> p, user |-> u, files |-> nFiles, titles |-> titles]
        titlesArray == TitlesArray(titles)
        found == WorkCompletionsOf(p) # {}
        w == IF found THEN FirstWorkCompletion(p)
             ELSE IF "w1" \in FreeWorkCompletionIds THEN "w1"
             ELSE CHOOSE x \in FreeWorkCompletionIds : TRUE
        created == [exists |-> TRUE, project |-> p, createdBy |-> u, images |-> <<>>]
        doc == IF found THEN workCompletions[w] ELSE created
    IN
    /\ logged' = NoComment
    /\ UNCHANGED <<browsers, clients, projects, estimations, quotations, inflight, lpos, mail>>
    /\ IF p = None
       THEN /\ response' = Response("uploadWorkCompletionImages", args, 400,
                Msg("Project ID is required"))
            /\ UNCHANGED <<workCompletions, storage>>
       ELSE IF nFiles = 0
       THEN /\ response' = Response("uploadWorkCompletionImages", args, 400,
                Msg("No images uploaded"))
            /\ UNCHANGED <<workCompletions, storage>>
       ELSE IF TitlesMismatch(titlesArray, nFiles)
       THEN /\ response' = Response("uploadWorkCompletionImages", args, 400,
                Msg("Number of titles must match number of images"))
            /\ UNCHANGED <<workCompletions, storage>>
       ELSE IF \E i \in DOMAIN titlesArray : TitleEmpty(titlesArray[i])
       THEN /\ response' = Response("uploadWorkCompletionImages", args, 400,
                Msg("All images must have a non-empty title"))
            /\ UNCHANGED <<workCompletions, storage>>
       ELSE IF found /\ NotOwner(doc, u)
       THEN /\ response' = Response("uploadWorkCompletionImages", args, 403,
                Msg("Not authorized to update this work completion"))
            /\ UNCHANGED <<workCompletions, storage>>
       ELSE /\ found \/ FreeWorkCompletionIds # {}
            /\ Len(doc.images) + nFiles <= MaxImages
            /\ IF ~uploadOk
               THEN /\ workCompletions' = [workCompletions EXCEPT ![w] = doc]
                    /\ response' = Response("uploadWorkCompletionImages", args, 500,
                            Msg("Failed to upload images to S3"))
                    /\ UNCHANGED storage
               ELSE LET newImages == NewImages(w, titlesArray, nFiles) IN
                    /\ workCompletions' = [workCompletions EXCEPT ![w] =
                            [doc EXCEPT !.images = doc.images \o newImages]]
                    /\ storage' = storage \cup {newImages[i].s3Key : i \in 1..nFiles}
                    /\ response' = Response("uploadWorkCompletionImages", args, 200,
                            Msg("Images uploaded successfully"))

\* workCompletion.images.findIndex(img => img._id.toString() === imageId): the
\* positions of the image whose id is imageId.  An image's id is its slot.
ImageIndex(doc, imageId) ==
    {i \in DOMAIN doc.images : doc.images[i].s3Key.slot = imageId}

\* images.splice(index, 1)
Splice(images, index) ==
    SubSeq(images, 1, index - 1) \o SubSeq(images, index + 1, Len(images))

\* deleteWorkCompletionImage.  deleteOk: the removal from storage succeeds.
DeleteWorkCompletionImage(w, imageId, u, deleteOk) ==
    LET args == [id |-> w, image |-> imageId, user |-> u]
        doc == workCompletions[w]
    IN
    /\ logged' = NoComment
    /\ UNCHANGED <<browsers, clients, projects, estimations, quotations, inflight, lpos, mail>>
    /\ IF ~doc.exists
       THEN /\ response' = Response("deleteWorkCompletionImage", args, 404,
                Msg("Work completion not found"))
            /\ UNCHANGED <<workCompletions, storage>>
       ELSE IF NotOwner(doc, u)
       THEN /\ response' = Response("deleteWorkCompletionImage", args, 403,
                Msg("Not authorized to modify this work completion"))
            /\ UNCHANGED <<workCompletions, storage>>
       ELSE IF ImageIndex(doc, imageId) = {}
       THEN /\ response' = Response("deleteWorkCompletionImage", args, 404,
                Msg("Image not found"))
            /\ UNCHANGED <<workCompletions, storage>>
       ELSE IF ~deleteOk
       THEN /\ response' = Response("deleteWorkCompletionImage", args, 500,
                Msg("Failed to delete image from S3"))
            /\ UNCHANGED <<workCompletions, storage>>
       ELSE LET index == CHOOSE i \in ImageIndex(doc, imageId) : TRUE IN
            /\ workCompletions' = [workCompletions EXCEPT
                    ![w].images = Splice(doc.images, index)]
            /\ storage' = storage \ {doc.images[index].s3Key}
            /\ response' = Response("deleteWorkCompletionImage", args, 200,
                    Msg("Image deleted successfully"))

\* ------------------------------------------- createEstimation, await by await

Idle == [pc |-> "idle"]

\* Up to the first await: the required-fields check, then Estimation.findOne.
CreateEstimationFind(r, body) ==
    LET args == [project |-> body.project, required |-> body.required] IN
    /\ inflight[r].pc = "idle"
    /\ logged' = NoComment
    /\ UNCHANGED <<browsers, clients, projects, estimations, quotations,
                   lpos, workCompletions, storage, mail>>
    /\ IF body.project = None \/ ~body.required
       THEN /\ response' = Response("createEstimation", args, 400,
                Msg("Required fields are missing"))
            /\ UNCHANGED inflight
       ELSE /\ inflight' = [inflight EXCEPT ![r] =
                    [pc |-> "insert", body |-> body,
                     found |-> EstimationsOf(body.project) # {}]]
            /\ UNCHANGED response

\* From the result of findOne to Estimation.create.
CreateEstimationInsert(r) ==
    LET body == inflight[r].body
        args == [project |-> body.project, required |-> body.required]
    IN
    /\ inflight[r].pc = "insert"
    /\ logged' = NoComment
    /\ UNCHANGED <<browsers, clients, projects, quotations, lpos, workCompletions, storage, mail>>
    /\ IF inflight[r].found
       THEN /\ response' = Response("createEstimation", args, 400, OnlyOneEstimationMsg)
            /\ inflight' = [inflight EXCEPT ![r] = Idle]
            /\ UNCHANGED estimations
       ELSE IF CreateEstimationItemError(body) # Msg(None)
       THEN /\ response' = Response("createEstimation", args, 400,
                CreateEstimationItemError(body))
            /\ inflight' = [inflight EXCEPT ![r] = Idle]
            /\ UNCHANGED estimations
       ELSE IF ~CreateEstimationValid(body)
       THEN /\ response' = Response("createEstimation", args, 500,
                Msg("Validation failed"))
            /\ inflight' = [inflight EXCEPT ![r] = Idle]
            /\ UNCHANGED estimations
       ELSE IF ~UniqueProjectIndex(body.project)
       THEN /\ response' = Response("createEstimation", args, 500,
                Msg("E11000 duplicate key error"))
            /\ inflight' = [inflight EXCEPT ![r] = Idle]
            /\ UNCHANGED estimations
       ELSE /\ FreeEstimationIds # {}
            /\ LET e == CHOOSE x \in FreeEstimationIds : TRUE IN
               estimations' = [estimations EXCEPT ![e] = NewEstimation(body)]
            /\ inflight' = [inflight EXCEPT ![r] = [pc |-> "project", body |-> body]]
            /\ UNCHANGED response

\* Project.findByIdAndUpdate(project, {status: "estimation_prepared"}) and the response.
CreateEstimationProject(r) ==
    LET body == inflight[r].body IN
    /\ inflight[r].pc = "project"
    /\ logged' = NoComment
    /\ UNCHANGED <<browsers, clients, estimations, quotations, lpos, workCompletions, storage, mail>>
    /\ projects' = WithProjectStatus(body.project, "estimation_prepared")
    /\ inflight' = [inflight EXCEPT ![r] = Idle]
    /\ response' = Response("createEstimation",
            [project |-> body.project, required |-> body.required], 201,
            Msg("Estimation created successfully"))

\* ------------------------------- createClient and updateClient, await by await

\* createClient up to its first await: the required fields, then Client.findOne.
CreateClientFind(r, trn, fieldsPresent) ==
    LET args == [trnNumber |-> trn] IN
    /\ inflight[r].pc = "idle"
    /\ logged' = NoComment
    /\ UNCHANGED <<browsers, clients, projects, estimations, quotations,
                   lpos, workCompletions, storage, mail>>
    /\ IF ~fieldsPresent \/ trn = None
       THEN /\ response' = Response("createClient", args, 400,
                Msg("Client name, address, pincode, mobile number and TRN are required"))
            /\ UNCHANGED inflight
       ELSE /\ inflight' = [inflight EXCEPT ![r] =
                    [pc |-> "createClientInsert", trn |-> trn,
                     found |-> OtherClientWithTrn(None, trn)]]
            /\ UNCHANGED response

\* From the result of findOne to Client.create and the response.
CreateClientInsert(r) ==
    LET trn == inflight[r].trn
        args == [trnNumber |-> trn]
    IN
    /\ inflight[r].pc = "createClientInsert"
    /\ logged' = NoComment
    /\ UNCHANGED <<browsers, projects, estimations, quotations, lpos, workCompletions, storage, mail>>
    /\ IF inflight[r].found
       THEN /\ response' = Response("createClient", args, 400,
                Msg("Client with this TRN already exists"))
            /\ inflight' = [inflight EXCEPT ![r] = Idle]
            /\ UNCHANGED clients
       ELSE IF ~UniqueTrnIndex(None, trn)
       THEN /\ response' = Response("createClient", args, 500,
                Msg("E11000 duplicate key error"))
            /\ inflight' = [inflight EXCEPT ![r] = Idle]
            /\ UNCHANGED clients
       ELSE /\ FreeClientIds # {}
            /\ LET c == CHOOSE x \in FreeClientIds : TRUE IN
               clients' = [clients EXCEPT ![c] = [exists |-> TRUE, trnNumber |-> trn]]
            /\ inflight' = [inflight EXCEPT ![r] = Idle]
            /\ response' = Response("createClient", args, 201,
                Msg("Client created successfully"))

\* Client.findByIdAndUpdate(id, {..., trnNumber: trnNumber || client.trnNumber})
\* and the response: doc is the document findById returned.  The update of a
\* document deleted in the meantime writes nothing and still answers 200.
UpdateClientStore(r, c, trn, doc) ==
    LET args == [id |-> c, trnNumber |-> trn] IN
    /\ inflight' = [inflight EXCEPT ![r] = Idle]
    /\ IF ~clients[c].exists
       THEN /\ response' = Response("updateClient", args, 200,
                Msg("Client updated successfully"))
            /\ UNCHANGED clients
       ELSE IF ~UniqueTrnIndex(c, UpdatedTrn(doc, trn))
       THEN /\ response' = Response("updateClient", args, 500,
                Msg("E11000 duplicate key error"))
            /\ UNCHANGED clients
       ELSE /\ clients' = [clients EXCEPT ![c].trnNumber = UpdatedTrn(doc, trn)]
            /\ response' = Response("updateClient", args, 200,
                Msg("Client updated successfully"))

\* updateClient up to its first await: Client.findById.
UpdateClientFind(r, c, trn, pincodeOk) ==
    /\ inflight[r].pc = "idle"
    /\ logged' = NoComment
    /\ UNCHANGED <<browsers, clients, projects, estimations, quotations, response,
                   lpos, workCompletions, storage, mail>>
    /\ inflight' = [inflight EXCEPT ![r] =
            [pc |-> "updateClientLookup", id |-> c, trn |-> trn,
             pincodeOk |-> pincodeOk, client |-> clients[c]]]

\* From the result of findById: not found, the pincode format, then either the
\* TRN lookup (a changed TRN) or the update itself.
UpdateClientLookup(r) ==
    LET c == inflight[r].id
        trn == inflight[r].trn
        doc == inflight[r].client
        args == [id |-> c, trnNumber |-> trn]
    IN
    /\ inflight[r].pc = "updateClientLookup"
    /\ logged' = NoComment
    /\ UNCHANGED <<browsers, projects, estimations, quotations, lpos, workCompletions, storage, mail>>
    /\ IF ~doc.exists
       THEN /\ response' = Response("updateClient", args, 404, Msg("Client not found"))
            /\ inflight' = [inflight EXCEPT ![r] = Idle]
            /\ UNCHANGED clients
       ELSE IF ~inflight[r].pincodeOk
       THEN /\ response' = Response("updateClient", args, 400,
                Msg("Pincode must be 6 digits"))
            /\ inflight' = [inflight EXCEPT ![r] = Idle]
            /\ UNCHANGED clients
       ELSE IF trn # None /\ trn # doc.trnNumber
       THEN /\ inflight' = [inflight EXCEPT ![r] =
                    [pc |-> "updateClientWrite", id |-> c, trn |-> trn, client |-> doc,
                     found |-> OtherClientWithTrn(c, trn)]]
            /\ UNCHANGED <<clients, response>>
       ELSE UpdateClientStore(r, c, trn, doc)

\* From the result of the TRN lookup to the update and the response.
UpdateClientWrite(r) ==
    LET c == inflight[r].id
        trn == inflight[r].trn
        args == [id |-> c, trnNumber |-> trn]
    IN
    /\ inflight[r].pc = "updateClientWrite"
    /\ logged' = NoComment
    /\ UNCHANGED <<browsers, projects, estimations, quotations, lpos, workCompletions, storage, mail>>
    /\ IF inflight[r].found
       THEN /\ response' = Response("updateClient", args, 400,
                Msg("Another client already uses this TRN"))
            /\ inflight' = [inflight EXCEPT ![r] = Idle]
            /\ UNCHANGED clients
       ELSE UpdateClientStore(r, c, trn, inflight[r].client)

\* ------------------------------------------------ PDF generation, await by await

PdfKinds == {"estimation", "quotation"}

PdfOp(kind) ==
    IF kind = "estimation" THEN "generateEstimationPdf" ELSE "generateQuotationPdf"

\* Estimation.findById(id) / Quotation.findById(id)
PdfDocument(kind, id) ==
    IF kind = "estimation" THEN estimations[id] ELSE quotations[id]

\* The populated references: doc.project && doc.project.client.
ClientInformation(doc) ==
    /\ doc.project \in ProjectIds
    /\ projects[doc.project].exists
    /\ projects[doc.project].client \in ClientIds
    /\ clients[projects[doc.project].client].exists

\* The awaited calls inside try { ... }, in their order.
PdfTrySteps == <<"newPage", "setViewport", "setContent", "waitForSelector", "pdf">>

PdfStepIndex(pc) == CHOOSE i \in DOMAIN PdfTrySteps : PdfTrySteps[i] = pc

\* The positions of a request at which its browser is open.
PdfOpenPcs == {PdfTrySteps[i] : i \in DOMAIN PdfTrySteps} \cup {"close"}

\* A faulty variant of the handler: no finally block, a throw inside the try
\* block leaves the handler at once.
AfterThrowNoFinally == "idle"

\* try { ... } finally { await browser.close() }: where a throw inside the try
\* block continues.
AfterThrow == "close"

\* The handler up to the result of puppeteer.launch: the document and its
\* populated references are looked up and nothing is launched for a refused
\* request; then a browser is open (launchOk), or the launch throws and the
\* request fails with no browser.
PdfLaunch(r, kind, id, launchOk) ==
    LET args == [id |-> id]
        doc == PdfDocument(kind, id)
    IN
    /\ inflight[r].pc = "idle"
    /\ logged' = NoComment
    /\ UNCHANGED <<clients, projects, estimations, quotations,
                   lpos, workCompletions, storage, mail>>
    /\ IF ~doc.exists
       THEN /\ response' = Response(PdfOp(kind), args, 404,
                IF kind = "estimation" THEN Msg("Estimation not found")
                ELSE Msg("Quotation not found"))
            /\ UNCHANGED <<inflight, browsers>>
       ELSE IF ~ClientInformation(doc)
       THEN /\ response' = Response(PdfOp(kind), args, 400,
                Msg("Client information not found"))
            /\ UNCHANGED <<inflight, browsers>>
       ELSE IF ~launchOk
       THEN /\ response' = Response(PdfOp(kind), args, 500,
                Msg("Failed to launch the browser process"))
            /\ UNCHANGED <<inflight, browsers>>
       ELSE /\ browsers' = browsers \cup {r}
            /\ inflight' = [inflight EXCEPT ![r] =
                    [pc |-> PdfTrySteps[1], kind |-> kind, id |-> id, threw |-> FALSE]]
            /\ UNCHANGED response

\* One awaited call of the try block resolves (ok) or throws.  After page.pdf
\* the response is sent, still inside the try block.
PdfStep(r, ok) ==
    LET req == inflight[r]
        args == [id |-> req.id]
    IN
    /\ req.pc \in {PdfTrySteps[i] : i \in DOMAIN PdfTrySteps}
    /\ logged' = NoComment
    /\ UNCHANGED <<browsers, clients, projects, estimations, quotations,
                   lpos, workCompletions, storage, mail>>
    /\ IF ok /\ PdfStepIndex(req.pc) < Len(PdfTrySteps)
       THEN /\ inflight' = [inflight EXCEPT ![r].pc = PdfTrySteps[PdfStepIndex(req.pc) + 1]]
            /\ UNCHANGED response
       ELSE IF ok
       THEN /\ inflight' = [inflight EXCEPT ![r].pc = "close"]
            /\ response' = Response(PdfOp(req.kind), args, 200, Msg("application/pdf"))
       ELSE IF AfterThrow = "close"
       THEN /\ inflight' = [inflight EXCEPT ![r].pc = "close", ![r].threw = TRUE]
            /\ UNCHANGED response
       ELSE /\ inflight' = [inflight EXCEPT ![r] = Idle]
            /\ response' = Response(PdfOp(req.kind), args, 500,
                    Msg("Rendering failed"))

\* finally { await browser.close() }: the browser is closed, then a pending
\* exception reaches the error handler.
PdfClose(r) ==
    LET req == inflight[r] IN
    /\ req.pc = "close"
    /\ logged' = NoComment
    /\ UNCHANGED <<clients, projects, estimations, quotations,
                   lpos, workCompletions, storage, mail>>
    /\ browsers' = browsers \ {r}
    /\ inflight' = [inflight EXCEPT ![r] = Idle]
    /\ IF req.threw
       THEN response' = Response(PdfOp(req.kind), [id |-> req.id], 500,
                Msg("Rendering failed"))
       ELSE UNCHANGED response

\* ------------------------------------------------------------ request inputs

Tri == {"true", "false", None}

EstimationBody(p, required, materials, labour, terms, quotationAmount, commissionAmount) ==
    [project |-> p, required |-> required, materials |-> materials,
     labour |-> labour, termsAndConditions |-> terms,
     quotationAmount |-> quotationAmount, commissionAmount |-> commissionAmount]

UpdateBody(fields, materials, labour, terms, quotationAmount, commissionAmount, isChecked) ==
    [fields |-> fields, materials |-> materials, labour |-> labour,
     termsAndConditions |-> terms, quotationAmount |-> quotationAmount,
     commissionAmount |-> commissionAmount, isChecked |-> isChecked]

QuotationBody(p, malformed, items, vatPercentage) ==
    [project |-> p, malformed |-> malformed, items |-> items,
     vatPercentage |-> vatPercentage]

ReqQuotationItem(quantity, unitPrice, image) ==
    [quantity |-> quantity, unitPrice |-> unitPrice, image |-> image]

\* The estimation of the worked example: materials 2 x 50, labour 3 x 20.
Material1 == ReqItem(TRUE, TRUE, 2, 50, NoNum)

Labour1 == ReqItem(TRUE, TRUE, 3, 20, NoNum)

\* What a progress request may carry: nothing, out of range, in range.
ProgressInputs == {NoNum, 0, 50, 100, 150}

\* Bodies of updateProject: a status, or a progress, or neither.
ProjectBodies ==
    [status : AllStatuses \cup {None}, progress : {NoNum}]
    \cup [status : {None}, progress : {50, 150}]

\* ------------------------------------------- specification: the life cycle

Init ==
    /\ clients = [c \in ClientIds |-> NoClient]
    /\ projects = [p \in ProjectIds |-> NoProject]
    /\ estimations = [e \in EstimationIds |-> NoEstimation]
    /\ quotations = [q \in QuotationIds |-> NoQuotation]
    /\ response = NoResponse
    /\ inflight = [r \in Reqs |-> Idle]
    /\ lpos = {}
    /\ workCompletions = [w \in WorkCompletionIds |-> NoWorkCompletion]
    /\ storage = {}
    /\ mail = NoMail
    /\ browsers = {}
    /\ logged = NoComment

\* The project's life cycle: every handler that writes a project's status,
\* each run to its response before the next request is served, with one body
\* per document.
Next ==
    \/ \E trn \in Trns : CreateClient(trn, TRUE)
    \/ \E c \in ClientIds, present \in BOOLEAN : CreateProject(c, present)
    \/ \E p \in ProjectIds, body \in ProjectBodies : UpdateProject(p, body)
    \/ \E p \in ProjectIds, t \in AllStatuses \cup {None} : UpdateProjectStatus(p, t)
    \/ \E p \in ProjectIds, n \in ProgressInputs : UpdateProjectProgress(p, n)
    \/ \E p \in ProjectIds : DeleteProject(p)
    \/ \E p \in ProjectIds :
            CreateEstimation(EstimationBody(p, TRUE, <<Material1>>, <<Labour1>>,
                                            <<>>, 200, 10))
    \/ \E e \in EstimationIds, b \in {"true", "false"} :
            MarkAsChecked(e, "u1", b, None, TRUE)
    \/ \E e \in EstimationIds, b \in {"true", "false"} :
            ApproveEstimation(e, "u1", b, None)
    \/ \E e \in EstimationIds : DeleteEstimation(e)
    \/ \E p \in ProjectIds :
            CreateQuotation(QuotationBody(p, None,
                <<ReqQuotationItem(2, 500, FALSE)>>, NoNum), TRUE)
    \/ \E q \in QuotationIds, b \in {"true", "false"} : ApproveQuotation(q, "u1", b)
    \/ \E q \in QuotationIds : DeleteQuotation(q, TRUE)

Spec == Init /\ [][Next]_vars

\* ------------------------------------------ specification: the estimation

\* A terms item 1 x 40, a material item whose quantity is 0 and that carries a
\* total of its own, and items that miss the uom or (with a falsy factor) the total.
Terms1 == ReqItem(TRUE, TRUE, 1, 40, NoNum)

MaterialZero == ReqItem(TRUE, TRUE, 0, 50, 7)

MaterialNoUom == ReqItem(TRUE, FALSE, 2, 50, NoNum)

MaterialNoTotal == ReqItem(TRUE, TRUE, 0, 50, NoNum)

EstimationBodies ==
    {EstimationBody(p, TRUE, <<Material1>>, <<Labour1>>, <<>>, qa, ca) :
        p \in ProjectIds, qa \in {NoNum, 0, 200}, ca \in {NoNum, 10}}
    \cup {EstimationBody(p, TRUE, <<Material1>>, <<>>, <<Terms1>>, 200, 10) :
        p \in ProjectIds}
    \cup {EstimationBody(p, FALSE, <<Material1>>, <<>>, <<>>, NoNum, NoNum) :
        p \in ProjectIds}
    \cup {EstimationBody(p, TRUE, <<MaterialNoUom>>, <<>>, <<>>, NoNum, NoNum) :
        p \in ProjectIds}
    \cup {EstimationBody(p, TRUE, <<>>, <<>>, <<>>, NoNum, NoNum) :
        p \in ProjectIds}

UpdateBodies ==
    {UpdateBody({}, <<>>, <<>>, <<>>, NoNum, NoNum, FALSE),
     UpdateBody({"isChecked"}, <<>>, <<>>, <<>>, NoNum, NoNum, TRUE),
     UpdateBody({"quotationAmount"}, <<>>, <<>>, <<>>, 0, NoNum, FALSE),
     UpdateBody({"quotationAmount", "commissionAmount"}, <<>>, <<>>, <<>>, 200, 10, FALSE),
     UpdateBody({"materials"}, <<Material1, Material1>>, <<>>, <<>>, NoNum, NoNum, FALSE),
     UpdateBody({"materials"}, <<MaterialZero>>, <<>>, <<>>, NoNum, NoNum, FALSE),
     UpdateBody({"materials"}, <<MaterialNoUom>>, <<>>, <<>>, NoNum, NoNum, FALSE),
     UpdateBody({"materials"}, <<MaterialNoTotal>>, <<>>, <<>>, NoNum, NoNum, FALSE),
     UpdateBody({"labour", "termsAndConditions"}, <<>>, <<Labour1>>, <<Terms1>>,
                NoNum, NoNum, FALSE)}

\* The estimation's handlers on the estimation of one project, each run to its
\* response before the next request is served.
NextEstimation ==
    \/ \E trn \in Trns : CreateClient(trn, TRUE)
    \/ \E c \in ClientIds : CreateProject(c, TRUE)
    \/ \E body \in EstimationBodies : CreateEstimation(body)
    \/ \E e \in EstimationIds, body \in UpdateBodies : UpdateEstimation(e, body)
    \/ \E e \in EstimationIds, b \in Tri : MarkAsChecked(e, "u1", b, "note", TRUE)
    \/ \E e \in EstimationIds, u \in Users, b \in Tri : ApproveEstimation(e, u, b, None)
    \/ \E e \in EstimationIds : DeleteEstimation(e)

SpecEstimation == Init /\ [][NextEstimation]_vars

\* ------------------------------ specification: createEstimation interleaved

\* Concurrent createEstimation requests for one project, each suspended at its
\* awaits, with deleteEstimation and the check/approve handlers in between.
NextInterleaved ==
    \/ \E trn \in Trns : CreateClient(trn, TRUE)
    \/ \E c \in ClientIds : CreateProject(c, TRUE)
    \/ \E r \in Reqs, p \in ProjectIds, required \in BOOLEAN :
            CreateEstimationFind(r,
                EstimationBody(p, required, <<Material1>>, <<Labour1>>, <<>>, 200, 10))
    \/ \E r \in Reqs : CreateEstimationInsert(r)
    \/ \E r \in Reqs : CreateEstimationProject(r)
    \/ \E e \in EstimationIds : MarkAsChecked(e, "u1", "true", None, TRUE)
    \/ \E e \in EstimationIds : ApproveEstimation(e, "u1", "true", None)
    \/ \E e \in EstimationIds : DeleteEstimation(e)

SpecInterleaved == Init /\ [][NextInterleaved]_vars

\* ------------------------------------------- specification: the quotation

\* Quotation items: prices are multiples of 100; one item misses its quantity.
QuotationItems ==
    {<<>>,
     <<ReqQuotationItem(2, 500, TRUE)>>,
     <<ReqQuotationItem(2, 500, FALSE), ReqQuotationItem(3, 100, TRUE)>>,
     <<ReqQuotationItem(NoNum, 500, FALSE)>>}

QuotationBodies ==
    {QuotationBody(p, None, items, vat) :
        p \in ProjectIds, items \in QuotationItems, vat \in {NoNum, 0, 5, 10}}
    \cup {QuotationBody(p, m, <<>>, NoNum) :
        p \in ProjectIds, m \in {"files", "json", "items"}}

\* The quotation's handlers on the quotation of one project, each run to its
\* response before the next request is served.
NextQuotation ==
    \/ \E trn \in Trns : CreateClient(trn, TRUE)
    \/ \E c \in ClientIds : CreateProject(c, TRUE)
    \/ \E p \in ProjectIds :
            CreateEstimation(EstimationBody(p, TRUE, <<Material1>>, <<Labour1>>,
                                            <<>>, 200, 10))
    \/ \E body \in QuotationBodies, uploaded \in BOOLEAN : CreateQuotation(body, uploaded)
    \/ \E q \in QuotationIds, u \in Users, b \in Tri : ApproveQuotation(q, u, b)
    \/ \E q \in QuotationIds, ok \in BOOLEAN : DeleteQuotation(q, ok)

SpecQuotation == Init /\ [][NextQuotation]_vars

\* ------------------------------------------------------------------- claims

\* t is listed in validStatusTransitions[s].
ListedInTable(s, t) ==
    s \in DOMAIN validStatusTransitions /\ t \in validStatusTransitions[s]

\* C1: every change of a project's persisted status from s to t, s # t, by any
\* of the handlers that write it, is an edge of the transition table.
C1_StatusChangesFollowTable ==
    [][\A p \in ProjectIds :
        (projects[p].exists /\ projects'[p].exists
         /\ projects'[p].status # projects[p].status)
        => ListedInTable(projects[p].status, projects'[p].status)]_vars

\* C2: updateProjectStatus on an existing project in status s with requested
\* status t answers 200 and persists t exactly when t is listed under s;
\* otherwise it answers 400 with a message naming s and t and writes nothing.
C2_UpdateProjectStatusIffListed ==
    [][(response'.op = "updateProjectStatus"
        /\ response'.args.status # None
        /\ projects[response'.args.id].exists)
       => LET p == response'.args.id
              s == projects[p].status
              t == response'.args.status
          IN IF ListedInTable(s, t)
             THEN response'.code = 200 /\ projects'[p].status = t
             ELSE /\ response'.code = 400
                  /\ response'.msg[2] = s /\ response'.msg[3] = t
                  /\ UNCHANGED <<clients, projects, estimations, quotations>>]_vars

\* C2 witness: a request out of quotation_rejected, which is no key of the
\* table, was refused with 400.
C2_Witness ==
    /\ response.op = "updateProjectStatus"
    /\ response.code = 400
    /\ response.msg[2] = "quotation_rejected"
    /\ response.msg[3] = "quotation_sent"
    /\ projects[response.args.id].status = "quotation_rejected"

\* C3: once a project's persisted status is cancelled or project_closed, no
\* operation changes it.
C3_TerminalStatusesStay ==
    [][\A p \in ProjectIds :
        (projects[p].exists /\ projects[p].status \in {"cancelled", "project_closed"})
        => (projects'[p].exists /\ projects'[p].status = projects[p].status)]_vars

\* The estimations stored for project p.
StoredFor(p) == {e \in EstimationIds : estimations[e].exists /\ estimations[e].project = p}

\* The response texts of the handlers that contain "already has".
TextsWithAlreadyHas == {"Project already has a quotation"}

\* C5 as stated: createEstimation for a project that has an estimation answers
\* 400 with a message containing "already has", and the estimations and the
\* project are left as they were.
C5_SecondEstimationAlreadyHas ==
    [][(response'.op = "createEstimation" /\ StoredFor(response'.args.project) # {})
       => /\ response'.code = 400
          /\ response'.msg[1] \in TextsWithAlreadyHas
          /\ UNCHANGED <<estimations, projects>>]_vars

\* C5 amended: the answer is 400 with the message "Only one estimation is
\* allowed per project. Update the existing estimation instead." ("Required
\* fields are missing" when a required field is absent or falsy), and the
\* estimations and the project are left as they were.
C5_SecondEstimationRefused ==
    [][(response'.op = "createEstimation" /\ StoredFor(response'.args.project) # {})
       => /\ response'.code = 400
          /\ response'.msg[1] =
                IF response'.args.required
                THEN "Only one estimation is allowed per project. Update the existing estimation instead."
                ELSE "Required fields are missing"
          /\ UNCHANGED <<estimations, projects>>]_vars

\* C5 witness: a second createEstimation for the project was refused.
C5_Witness ==
    /\ response.op = "createEstimation"
    /\ response.code = 400
    /\ response.args.required
    /\ StoredFor(response.args.project) # {}

\* C6: approveEstimation on an unchecked estimation answers 400 and changes
\* nothing; on an approved one with isApproved = true it answers 400; on a
\* checked, unapproved one with isApproved = true it answers 200 and leaves
\* isApproved = true and approvedBy = the requesting user.
C6_ApproveRequiresChecked ==
    [][(response'.op = "approveEstimation" /\ response'.args.isApproved # None
        /\ estimations[response'.args.id].exists)
       => LET e == response'.args.id
              doc == estimations[e]
          IN /\ ~doc.isChecked =>
                    /\ response'.code = 400
                    /\ UNCHANGED <<clients, projects, estimations, quotations>>
             /\ (doc.isApproved /\ response'.args.isApproved = "true") =>
                    response'.code = 400
             /\ (doc.isChecked /\ ~doc.isApproved /\ response'.args.isApproved = "true") =>
                    /\ response'.code = 200
                    /\ estimations'[e].isApproved
                    /\ estimations'[e].approvedBy = response'.args.user]_vars

\* C6 witness: user u2 approved a checked estimation.
C6_Witness ==
    /\ response.op = "approveEstimation"
    /\ response.code = 200
    /\ response.args.user = "u2"
    /\ estimations[response.args.id].isChecked
    /\ estimations[response.args.id].isApproved
    /\ estimations[response.args.id].approvedBy = "u2"

\* C7: while an estimation is approved, no operation changes a stored field
\* of it or removes it.
C7_ApprovedEstimationImmutable ==
    [][\A e \in EstimationIds :
        (estimations[e].exists /\ estimations[e].isApproved)
        => estimations'[e] = estimations[e]]_vars

\* C8: every successful updateEstimation on a checked, unapproved estimation
\* leaves isChecked = false.
C8_UpdateResetsChecked ==
    [][(response'.op = "updateEstimation" /\ response'.code = 200
        /\ estimations[response'.args.id].isChecked
        /\ ~estimations[response'.args.id].isApproved)
       => ~estimations'[response'.args.id].isChecked]_vars

\* The plain sum of the stored totals of a list of items.
RECURSIVE TotalOf(_)
TotalOf(items) ==
    IF items = <<>> THEN 0 ELSE Head(items).total + TotalOf(Tail(items))

\* estimatedAmount of a stored estimation is the sum of all its item totals.
EstimatedAmountIsSum(doc) ==
    doc.estimatedAmount =
        TotalOf(doc.materials) + TotalOf(doc.labour) + TotalOf(doc.termsAndConditions)

\* C9: every stored estimation has estimatedAmount = the sum of the stored
\* totals of its items and, when quotationAmount is present (any value >= 0),
\* profit = quotationAmount - estimatedAmount - commissionAmount (0 when absent).
C9_DerivedAmounts ==
    \A e \in EstimationIds :
        estimations[e].exists =>
            /\ EstimatedAmountIsSum(estimations[e])
            /\ estimations[e].quotationAmount # NoNum =>
                 estimations[e].profit =
                    estimations[e].quotationAmount - estimations[e].estimatedAmount
                    - (IF estimations[e].commissionAmount = NoNum THEN 0
                       ELSE estimations[e].commissionAmount)

\* The first half of C9 alone (not a claim's formula): estimatedAmount.
EstimatedAmountInvariant ==
    \A e \in EstimationIds : estimations[e].exists => EstimatedAmountIsSum(estimations[e])

\* C4: in every reachable state of the interleaved runs, a project has at most
\* one estimation.
C4_OneEstimationPerProject ==
    \A p \in ProjectIds : Cardinality(StoredFor(p)) <= 1

\* C4 witness: two requests passed the existence check, one inserted and the
\* other's insert was refused by the index.
C4_Witness ==
    /\ response.op = "createEstimation"
    /\ response.code = 500
    /\ StoredFor(response.args.project) # {}
    /\ \E r \in Reqs : inflight[r].pc = "project"

\* The plain sum of the stored totalPrice values of a list of quotation items.
RECURSIVE SumOfTotalPrices(_)
SumOfTotalPrices(items) ==
    IF items = <<>> THEN 0
    ELSE items[1].totalPrice + SumOfTotalPrices(SubSeq(items, 2, Len(items)))

\* C10: a quotation createQuotation stores has totalPrice = quantity * unitPrice
\* in every item, subtotal = the sum of the totalPrice values, vatAmount =
\* subtotal * vatPercentage / 100 (5 when the request gives none) and total =
\* subtotal + vatAmount.
C10_QuotationTotals ==
    [][(response'.op = "createQuotation" /\ response'.code = 201)
       => \E q \in QuotationIds :
            LET doc == quotations'[q]
                vat == IF response'.args.vatPercentage = NoNum THEN 5
                       ELSE response'.args.vatPercentage
            IN /\ ~quotations[q].exists /\ doc.exists
               /\ doc.project = response'.args.project
               /\ \A i \in DOMAIN doc.items :
                    doc.items[i].totalPrice = doc.items[i].quantity * doc.items[i].unitPrice
               /\ doc.subtotal = SumOfTotalPrices(doc.items)
               /\ doc.vatAmount * 100 = doc.subtotal * vat
               /\ doc.total = doc.subtotal + doc.vatAmount]_vars

\* C10 witness: the worked example, items of subtotal 1000 and no vatPercentage
\* in the request: vatAmount 50 and total 1050.
C10_Witness ==
    /\ response.op = "createQuotation"
    /\ response.code = 201
    /\ response.args.vatPercentage = NoNum
    /\ \E q \in QuotationIds :
        /\ quotations[q].exists
        /\ quotations[q].subtotal = 1000
        /\ quotations[q].vatAmount = 50
        /\ quotations[q].total = 1050

\* C11: deleteProject on an existing project whose status is not draft answers
\* 400 and leaves the project record as it was; on a draft project it answers
\* 200 and the record no longer exists.
C11_DeleteProjectOnlyDraft ==
    [][(response'.op = "deleteProject" /\ projects[response'.args.id].exists)
       => LET p == response'.args.id IN
          IF projects[p].status # "draft"
          THEN response'.code = 400 /\ projects' = projects
          ELSE response'.code = 200 /\ ~projects'[p].exists]_vars

\* C11 witness: the deletion of a project that has left draft was refused.
C11_Witness ==
    /\ response.op = "deleteProject"
    /\ response.code = 400
    /\ projects[response.args.id].exists
    /\ projects[response.args.id].status = "estimation_prepared"

\* ------------------------------------------ specification: the invoice data

\* Invoice data for the project at every stage of its documents: with and
\* without a quotation, with and without items, with and without an LPO, and
\* after the client's deletion.
NextInvoice ==
    \/ \E trn \in Trns : CreateClient(trn, TRUE)
    \/ \E c \in ClientIds : DeleteClient(c)
    \/ \E c \in ClientIds : CreateProject(c, TRUE)
    \/ \E p \in ProjectIds, t \in {"estimation_prepared", "cancelled"} :
            UpdateProjectStatus(p, t)
    \/ \E p \in ProjectIds, items \in {<<>>, <<ReqQuotationItem(2, 500, TRUE)>>} :
            CreateQuotation(QuotationBody(p, None, items, NoNum), TRUE)
    \/ \E q \in QuotationIds, b \in {"true", "false"} : ApproveQuotation(q, "u1", b)
    \/ \E q \in QuotationIds : DeleteQuotation(q, TRUE)
    \/ \E p \in ProjectIds : StoreLPO(p)
    \/ \E p \in ProjectIds \cup {None} : GenerateInvoiceData(p)

SpecInvoice == Init /\ [][NextInvoice]_vars

\* C12: generateInvoiceData on an existing project answers 404 "Quotation
\* not found for this project" when the project has no quotation (with or
\* without an LPO), 404 "LPO not found for this project" when only the LPO is
\* missing, 400 when the quotation has no items, and 200 only when the
\* quotation, the LPO and an item are there; it writes no collection.
C12_InvoiceDataRequirements ==
    [][(response'.op = "generateInvoiceData" /\ response'.args.id # None
        /\ projects[response'.args.id].exists)
       => LET p == response'.args.id
              qs == {q \in QuotationIds : quotations[q].exists /\ quotations[q].project = p}
          IN /\ UNCHANGED <<clients, projects, estimations, quotations, lpos,
                            workCompletions, storage>>
             /\ qs = {} =>
                    /\ response'.code = 404
                    /\ response'.msg[1] = "Quotation not found for this project"
             /\ (qs # {} /\ p \notin lpos) =>
                    /\ response'.code = 404
                    /\ response'.msg[1] = "LPO not found for this project"
             /\ (qs # {} /\ p \in lpos /\ \A q \in qs : quotations[q].items = <<>>) =>
                    response'.code = 400
             /\ response'.code = 200 =>
                    /\ qs # {} /\ p \in lpos
                    /\ \E q \in qs : Len(quotations[q].items) >= 1]_vars

\* C12 witness: the project has neither a quotation nor an LPO and the answer
\* names the quotation.
C12_Witness ==
    /\ response.op = "generateInvoiceData"
    /\ response.code = 404
    /\ response.msg[1] = "Quotation not found for this project"
    /\ response.args.id # None
    /\ projects[response.args.id].exists
    /\ response.args.id \notin lpos
    /\ \A q \in QuotationIds : ~quotations[q].exists

\* --------------------------------------- specification: the work completion

TitlesInputs ==
    {Titles("absent", <<>>), Titles("string", <<"a">>), Titles("string", <<"">>),
     Titles("array", <<>>), Titles("array", <<"a">>), Titles("array", <<"a", "b">>),
     Titles("array", <<"a", " ">>), Titles("array", <<"a", "b", "a">>)}

\* The work completion handlers, requested by either user, each run to its
\* response before the next request is served.
NextWorkCompletion ==
    \/ \E trn \in Trns : CreateClient(trn, TRUE)
    \/ \E c \in ClientIds : CreateProject(c, TRUE)
    \/ \E p \in ProjectIds \cup {None}, u \in Users : CreateWorkCompletion(p, u)
    \/ \E p \in ProjectIds, u \in Users, n \in 0..MaxImages,
          titles \in TitlesInputs, ok \in BOOLEAN :
            UploadWorkCompletionImages(p, u, n, titles, ok)
    \/ \E u \in Users :
            UploadWorkCompletionImages(None, u, 1, Titles("array", <<"a">>), TRUE)
    \/ \E w \in WorkCompletionIds, i \in 1..MaxImages, u \in Users, ok \in BOOLEAN :
            DeleteWorkCompletionImage(w, i, u, ok)

SpecWorkCompletion == Init /\ [][NextWorkCompletion]_vars

\* The number of titles a request carries.
TitleCount(titles) ==
    IF titles.kind = "absent" THEN 0
    ELSE IF titles.kind = "string" THEN 1
    ELSE Len(titles.value)

\* C13: uploadWorkCompletionImages with N >= 1 files and M # N titles answers
\* 400 "Number of titles must match number of images"; no work completion is
\* created or changed and nothing is put into storage.
C13_TitleCountMustMatch ==
    [][(response'.op = "uploadWorkCompletionImages"
        /\ response'.args.project # None
        /\ response'.args.files >= 1
        /\ TitleCount(response'.args.titles) # response'.args.files)
       => /\ response'.code = 400
          /\ response'.msg[1] = "Number of titles must match number of images"
          /\ UNCHANGED <<workCompletions, storage>>]_vars

\* C13 witness: one file with two titles was refused while the project's
\* work completion held an image.
C13_Witness ==
    /\ response.op = "uploadWorkCompletionImages"
    /\ response.code = 400
    /\ response.args.files = 1
    /\ response.args.titles = Titles("array", <<"a", "b">>)
    /\ \E w \in WorkCompletionIds :
            /\ workCompletions[w].exists
            /\ workCompletions[w].project = response.args.project
            /\ workCompletions[w].createdBy = response.args.user
            /\ Len(workCompletions[w].images) = 1

\* ------------------------------------------ specification: the notifications

\* The two handlers that notify by mail, with a send that succeeds or fails,
\* on the project and its estimation.
NextMail ==
    \/ \E trn \in Trns : CreateClient(trn, TRUE)
    \/ \E c \in ClientIds : CreateProject(c, TRUE)
    \/ \E p \in ProjectIds, a \in Users \cup {None, "u9"}, ok \in BOOLEAN :
            AssignProject(p, a, ok)
    \/ \E p \in ProjectIds :
            CreateEstimation(EstimationBody(p, TRUE, <<Material1>>, <<Labour1>>,
                                            <<>>, 200, 10))
    \/ \E e \in EstimationIds, u \in Users, b \in Tri, ok \in BOOLEAN :
            MarkAsChecked(e, u, b, None, ok)

SpecMail == Init /\ [][NextMail]_vars

\* C14: assignProject of a known engineer to an existing project, and
\* markAsChecked with isChecked = true on an unchecked estimation, answer 200
\* and leave the persisted state that the request alone determines (the
\* assignment, the checked flag and its user), whether the mail is sent or not.
C14_MailFailureDoesNotBlock ==
    [][/\ (response'.op = "assignProject"
           /\ response'.args.assignedTo \in Users
           /\ projects[response'.args.id].exists)
          => /\ response'.code = 200
             /\ projects' = [projects EXCEPT
                    ![response'.args.id].assignedTo = response'.args.assignedTo]
             /\ UNCHANGED <<clients, estimations, quotations>>
       /\ (response'.op = "markAsChecked"
           /\ response'.args.isChecked = "true"
           /\ estimations[response'.args.id].exists
           /\ ~estimations[response'.args.id].isChecked)
          => /\ response'.code = 200
             /\ estimations' = [estimations EXCEPT
                    ![response'.args.id].isChecked = TRUE,
                    ![response'.args.id].checkedBy = response'.args.user]
             /\ UNCHANGED <<clients, projects, quotations>>]_vars

\* C14 witness: the project is assigned and its estimation is checked, and
\* both notifications failed.
C14_Witness ==
    /\ mail.assignProject = "failed"
    /\ mail.markAsChecked = "failed"
    /\ response.op = "markAsChecked"
    /\ response.code = 200
    /\ estimations[response.args.id].isChecked
    /\ estimations[response.args.id].checkedBy = "u2"
    /\ projects[estimations[response.args.id].project].assignedTo = "u1"

\* The quotations stored for project p.
QuotationsStoredFor(p) ==
    {q \in QuotationIds : quotations[q].exists /\ quotations[q].project = p}

\* The request of the last createQuotation is well formed: files, JSON data and
\* an array of items, each with a quantity and a unit price.
WellFormedQuotationRequest(args) ==
    /\ args.malformed = None
    /\ \A i \in DOMAIN args.items :
            args.items[i].quantity # NoNum /\ args.items[i].unitPrice # NoNum

\* C15: createQuotation for a project that has a quotation answers 400 and
\* leaves the quotations, the project and the storage as they were; a well
\* formed request for an existing project without one answers 201, stores a
\* quotation for the project and leaves the project in quotation_sent.
C15_OneQuotationPerProject ==
    [][response'.op = "createQuotation"
       => LET p == response'.args.project IN
          /\ QuotationsStoredFor(p) # {} =>
                /\ response'.code = 400
                /\ UNCHANGED <<quotations, projects, storage>>
          /\ (QuotationsStoredFor(p) = {} /\ WellFormedQuotationRequest(response'.args)
              /\ p \in ProjectIds /\ projects[p].exists) =>
                /\ response'.code = 201
                /\ \E q \in QuotationIds :
                        /\ ~quotations[q].exists
                        /\ quotations'[q].exists
                        /\ quotations'[q].project = p
                /\ projects'[p].status = "quotation_sent"]_vars

\* C15 witness: a second request for the project, carrying an image, was
\* refused, and no file is in storage.
C15_Witness ==
    /\ response.op = "createQuotation"
    /\ response.code = 400
    /\ response.msg[1] = "Project already has a quotation"
    /\ response.args.items = <<ReqQuotationItem(2, 500, TRUE)>>
    /\ QuotationsStoredFor(response.args.project) # {}
    /\ storage = {}

\* C16: createQuotation for a project that has no estimation is refused, so
\* every stored quotation belongs to a project that had an estimation when
\* the quotation was created.
C16_QuotationRequiresEstimation ==
    [][(response'.op = "createQuotation"
        /\ \A e \in EstimationIds :
              ~(estimations[e].exists /\ estimations[e].project = response'.args.project))
       => /\ response'.code >= 400
          /\ UNCHANGED quotations]_vars

OtherProject == "p2"

\* Quotations created and deleted for two project ids, each request run to
\* its response before the next is served.
NextNumbers ==
    \/ \E trn \in Trns : CreateClient(trn, TRUE)
    \/ \E c \in ClientIds : CreateProject(c, TRUE)
    \/ \E p \in ProjectIds \cup {OtherProject}, image \in BOOLEAN :
            CreateQuotation(QuotationBody(p, None,
                <<ReqQuotationItem(2, 500, image)>>, NoNum), TRUE)
    \/ \E q \in QuotationIds, b \in {"true", "false"} : ApproveQuotation(q, "u1", b)
    \/ \E q \in QuotationIds, ok \in BOOLEAN : DeleteQuotation(q, ok)

SpecNumbers == Init /\ [][NextNumbers]_vars

\* C18: the number generateQuotationNumber yields is the number of no stored
\* quotation, and the numbers of the stored quotations are pairwise distinct.
C18_QuotationNumbersUnique ==
    /\ \A q \in QuotationIds :
            quotations[q].exists => quotations[q].quotationNumber # GenerateQuotationNumber
    /\ \A q1, q2 \in QuotationIds :
            (q1 # q2 /\ quotations[q1].exists /\ quotations[q2].exists)
            => quotations[q1].quotationNumber # quotations[q2].quotationNumber

\* C19: every updateProjectProgress that answers 200 for progress = 100 leaves
\* the project in work_completed with progress 100.
C19_FullProgressCompletes ==
    [][(response'.op = "updateProjectProgress" /\ response'.code = 200
        /\ response'.args.progress = 100)
       => /\ projects'[response'.args.id].exists
          /\ projects'[response'.args.id].status = "work_completed"
          /\ projects'[response'.args.id].progress = 100]_vars

\* C19 witness: a project that never had an estimation or a quotation, so one
\* that was not on the way to work_completed, is completed by the request.
C19_Witness ==
    /\ response.op = "updateProjectProgress"
    /\ response.code = 200
    /\ response.args.progress = 100
    /\ projects[response.args.id].status = "work_completed"
    /\ projects[response.args.id].progress = 100
    /\ \A e \in EstimationIds : ~estimations[e].exists
    /\ \A q \in QuotationIds : ~quotations[q].exists

\* The work completions stored for project p, and the one a look-up by
\* project finds (the one stored first).
StoredWorkCompletions(p) ==
    {w \in WorkCompletionIds : workCompletions[w].exists /\ workCompletions[w].project = p}

FoundWorkCompletion(p) ==
    IF "w1" \in StoredWorkCompletions(p) THEN "w1" ELSE "w2"

\* The record the last request addresses: by project (upload) or by id (delete).
AddressedWorkCompletion(resp) ==
    IF resp.op = "uploadWorkCompletionImages"
    THEN FoundWorkCompletion(resp.args.project)
    ELSE resp.args.id

\* The last upload request passes the checks of its files and titles.
UploadWellFormed(args) ==
    /\ args.files >= 1
    /\ TitleCount(args.titles) = args.files
    /\ \A i \in DOMAIN args.titles.value : args.titles.value[i] \notin {"", " "}

\* C20: an uploadWorkCompletionImages or deleteWorkCompletionImage request by
\* a user other than the creator of the record it addresses fails and leaves
\* every image list as it was, with 403 unless the upload is refused for its
\* files or titles before; and whenever the image list of a stored record
\* changes, the request is its creator's.
C20_OnlyCreatorChangesImages ==
    [][/\ (/\ response'.op \in {"uploadWorkCompletionImages", "deleteWorkCompletionImage"}
           /\ (response'.op = "uploadWorkCompletionImages" =>
                    /\ response'.args.project # None
                    /\ StoredWorkCompletions(response'.args.project) # {})
           /\ workCompletions[AddressedWorkCompletion(response')].exists
           /\ workCompletions[AddressedWorkCompletion(response')].createdBy
                    # response'.args.user)
          => /\ response'.code >= 400
             /\ UNCHANGED <<workCompletions, storage>>
             /\ (response'.op = "deleteWorkCompletionImage"
                 \/ UploadWellFormed(response'.args)) => response'.code = 403
       /\ \A w \in WorkCompletionIds :
            (workCompletions[w].exists
             /\ workCompletions'[w].images # workCompletions[w].images)
            => response'.args.user = workCompletions[w].createdBy]_vars

\* C20 witness: u2's upload to the record u1 created, which holds an image,
\* was refused with 403.
C20_Witness ==
    /\ response.op = "uploadWorkCompletionImages"
    /\ response.code = 403
    /\ response.args.user = "u2"
    /\ response.args.project # None
    /\ StoredWorkCompletions(response.args.project) # {}
    /\ workCompletions[FoundWorkCompletion(response.args.project)].createdBy = "u1"
    /\ Len(workCompletions[FoundWorkCompletion(response.args.project)].images) = 1

\* ------------------------------- specification: the clients, interleaved

\* Concurrent createClient and updateClient requests, each suspended at its
\* awaits.
NextClients ==
    \/ \E r \in Reqs, trn \in TrnsTwo \cup {None} : CreateClientFind(r, trn, TRUE)
    \/ \E r \in Reqs : CreateClientInsert(r)
    \/ \E r \in Reqs, c \in ClientIds, trn \in TrnsTwo \cup {None} :
            UpdateClientFind(r, c, trn, TRUE)
    \/ \E r \in Reqs : UpdateClientFind(r, "c1", None, FALSE)
    \/ \E r \in Reqs : UpdateClientLookup(r)
    \/ \E r \in Reqs : UpdateClientWrite(r)

SpecClients == Init /\ [][NextClients]_vars

\* C21: in every reachable state, interleavings of createClient and
\* updateClient included, no two client records have the same trnNumber.
C21_TrnUnique ==
    \A a \in ClientIds, b \in ClientIds :
        (a # b /\ clients[a].exists /\ clients[b].exists)
            => clients[a].trnNumber # clients[b].trnNumber

\* Two requests passed their TRN lookups before either wrote, and the write of
\* the second was refused by the index while another client holds the TRN.
C21_Witness ==
    /\ response.op \in {"createClient", "updateClient"}
    /\ response.code = 500
    /\ response.args.trnNumber # None
    /\ \E c \in ClientIds :
            clients[c].exists /\ clients[c].trnNumber = response.args.trnNumber

\* --------------------------------------- specification: PDF generation

\* The requests that render at the same time.
PdfReqs == {1, 2}

\* Concurrent PDF requests for the estimation and the quotation of one project,
\* each suspended at its awaits; every awaited renderer call resolves or throws.
NextPdf ==
    \/ \E trn \in Trns : CreateClient(trn, TRUE)
    \/ \E c \in ClientIds : CreateProject(c, TRUE)
    \/ \E p \in ProjectIds :
            CreateEstimation(EstimationBody(p, TRUE, <<Material1>>, <<Labour1>>,
                                            <<>>, 200, 10))
    \/ \E p \in ProjectIds :
            CreateQuotation(QuotationBody(p, None,
                <<ReqQuotationItem(2, 500, FALSE)>>, NoNum), TRUE)
    \/ \E r \in PdfReqs, ok \in BOOLEAN : PdfLaunch(r, "estimation", "e1", ok)
    \/ \E r \in PdfReqs, ok \in BOOLEAN : PdfLaunch(r, "quotation", "q1", ok)
    \/ \E r \in PdfReqs, ok \in BOOLEAN : PdfStep(r, ok)
    \/ \E r \in PdfReqs : PdfClose(r)

\* The event loop resumes a handler whose awaited call has settled, and every
\* renderer call settles (it resolves, throws or times out).
PdfFairness ==
    \A r \in PdfReqs :
        /\ WF_vars(\E ok \in BOOLEAN : PdfStep(r, ok))
        /\ WF_vars(PdfClose(r))

SpecPdf == Init /\ [][NextPdf]_vars /\ PdfFairness

\* C22: in generateEstimationPdf and generateQuotationPdf a launched browser
\* is open only while its request is inside the try block or its finally
\* block, and every launched browser is eventually closed, also when a call
\* inside the try block throws.
C22_RendererAlwaysClosed ==
    /\ [](\A r \in Reqs : r \in browsers => inflight[r].pc \in PdfOpenPcs)
    /\ \A r \in PdfReqs : (r \in browsers) ~> (r \notin browsers)

\* A request in whose try block a call threw has ended, and no browser is open.
C22_Witness ==
    /\ response.op \in {"generateEstimationPdf", "generateQuotationPdf"}
    /\ response.code = 500
    /\ response.msg = Msg("Rendering failed")
    /\ browsers = {}
    /\ \A r \in Reqs : inflight[r].pc = "idle"



\* ----------------------------------- specification: every writing handler

\* Every handler that writes, each run to its response before the next request
\* is served, on one project and its documents: a request that passes the
\* checks of its handler and requests that fail them.
NextRequests ==
    \/ \E trn \in Trns \cup {None} : CreateClient(trn, TRUE)
    \/ \E c \in ClientIds, ok \in BOOLEAN : UpdateClient(c, None, ok)
    \/ DeleteClient("c2")
    \/ \E c \in ClientIds, present \in BOOLEAN : CreateProject(c, present)
    \/ \E p \in ProjectIds :
            UpdateProject(p, [status |-> "draft", progress |-> NoNum])
    \/ \E p \in ProjectIds, t \in {None, "on_hold", "draft"} : UpdateProjectStatus(p, t)
    \/ \E p \in ProjectIds, n \in {NoNum, 50} : UpdateProjectProgress(p, n)
    \/ \E p \in ProjectIds, a \in {None, "u9"} : AssignProject(p, a, TRUE)
    \/ \E p \in ProjectIds : DeleteProject(p)
    \/ \E p \in ProjectIds, required \in BOOLEAN :
            CreateEstimation(EstimationBody(p, required, <<Material1>>, <<Labour1>>,
                                            <<>>, 200, 10))
    \/ UpdateEstimation("e1", UpdateBody({"materials"}, <<MaterialNoUom>>, <<>>, <<>>,
                                         NoNum, NoNum, FALSE))
    \/ \E b \in Tri : MarkAsChecked("e1", "u1", b, None, TRUE)
    \/ \E b \in Tri : ApproveEstimation("e1", "u1", b, None)
    \/ DeleteEstimation("e1")
    \/ \E p \in ProjectIds, m \in {None, "files"} :
            CreateQuotation(QuotationBody(p, m, <<ReqQuotationItem(2, 500, FALSE)>>,
                                          NoNum), TRUE)
    \/ UpdateQuotation("q1", FALSE, <<>>, TRUE)
    \/ ApproveQuotation("q1", "u1", "true")
    \/ DeleteQuotation("q1", TRUE)
    \/ CreateWorkCompletion(None, "u1")
    \/ \E p \in ProjectIds, u \in Users, titles \in {<<"a">>, <<>>} :
            UploadWorkCompletionImages(p, u, 1, Titles("array", titles), TRUE)
    \/ \E u \in Users : DeleteWorkCompletionImage("w1", 2, u, TRUE)

SpecRequests == Init /\ [][NextRequests]_vars

\* The persisted entities other than the activity log.
persisted == <<clients, projects, estimations, quotations, workCompletions, lpos>>

\* C23: a request that ends with a 4xx error leaves every persisted entity as
\* it was before the request and appends nothing to the activity log.
C23_ClientErrorsWriteNothing ==
    [][(response'.code >= 400 /\ response'.code < 500)
           => (UNCHANGED persisted /\ logged' = NoComment)]_vars

\* An approval was refused because the stored estimation is not checked.
C23_Witness ==
    /\ response.op = "approveEstimation"
    /\ response.code = 400
    /\ response.args.isApproved = "true"
    /\ estimations[response.args.id].exists
    /\ ~estimations[response.args.id].isChecked

\* The document a request addresses by id is stored.
Addressed(resp) ==
    CASE resp.op \in {"assignProject", "updateProjectStatus", "deleteProject"} ->
            projects[resp.args.id].exists
      [] resp.op = "createEstimation" ->
            resp.args.project \in ProjectIds /\ projects[resp.args.project].exists
      [] resp.op \in {"approveEstimation", "markAsChecked", "updateEstimation",
                      "deleteEstimation"} ->
            estimations[resp.args.id].exists
      [] resp.op \in {"approveQuotation", "updateQuotation", "deleteQuotation"} ->
            quotations[resp.args.id].exists
      [] resp.op \in {"updateClient", "deleteClient"} ->
            clients[resp.args.id].exists
      [] OTHER -> TRUE

\* The request carries what its handler requires before it looks the document up.
WellFormed(resp) ==
    CASE resp.op = "assignProject" -> resp.args.assignedTo # None
      [] resp.op = "updateProjectStatus" -> resp.args.status # None
      [] resp.op = "createEstimation" -> resp.args.project # None /\ resp.args.required
      [] resp.op = "approveEstimation" -> resp.args.isApproved # None
      [] resp.op = "markAsChecked" -> resp.args.isChecked # None
      [] OTHER -> TRUE

\* C24: an operation addressed by id to a project, estimation, quotation or
\* client that does not exist ends with 404 and writes nothing.
C24_MissingEntityIs404 ==
    [][(WellFormed(response') /\ ~Addressed(response'))
           => (response'.code = 404 /\ UNCHANGED persisted /\ logged' = NoComment)]_vars

\* Every stored item of a list carries total = a * b.
TotalsAreProducts(items) ==
    \A i \in DOMAIN items : items[i].total = items[i].a * items[i].b

\* C25: every stored material and terms item has total = quantity * unitPrice
\* and every stored labour item has total = days * price.
C25_ItemTotals ==
    \A e \in EstimationIds :
        estimations[e].exists =>
            /\ TotalsAreProducts(estimations[e].materials)
            /\ TotalsAreProducts(estimations[e].labour)
            /\ TotalsAreProducts(estimations[e].termsAndConditions)

\* ------------------- specification: status changes without an approval

\* A project created in draft and updateProjectStatus requests for every
\* status but quotation_approved: the sequences of table-validated changes in
\* which the status is never quotation_approved.
NextUnapproved ==
    \/ \E trn \in Trns : CreateClient(trn, TRUE)
    \/ \E c \in ClientIds : CreateProject(c, TRUE)
    \/ \E p \in ProjectIds, t \in AllStatuses \ {"quotation_approved"} :
            UpdateProjectStatus(p, t)

SpecUnapproved == Init /\ [][NextUnapproved]_vars

WorkStatuses == {"work_started", "in_progress"}

\* C26: by table-validated status changes from draft, work_started and
\* in_progress are not reached as long as the status has never been
\* quotation_approved.
C26_WorkNeedsApproval ==
    \A p \in ProjectIds : projects[p].exists => projects[p].status \notin WorkStatuses

\* C26, amended: as long as the status has never been quotation_approved, a
\* table-validated change enters work_started or in_progress only from on_hold.
C26_WorkNeedsApprovalOrHold ==
    [][\A p \in ProjectIds :
          (projects[p].exists /\ projects'[p].exists
           /\ projects[p].status \notin WorkStatuses
           /\ projects'[p].status \in WorkStatuses)
              => projects[p].status = "on_hold"]_vars

\* A project that was never approved has been put to work_started.
C26_Witness ==
    /\ response.op = "updateProjectStatus"
    /\ response.code = 200
    /\ response.args.status = "work_started"
    /\ projects[response.args.id].status = "work_started"

\* ------------------------------------------- the two status entry points

\* A body of updateProject that carries a status and nothing else.
StatusOnlyBody(t) == [status |-> t, progress |-> NoNum]

\* updateProject, called with only the status t, answers code and leaves the
\* project with the status kept.
ViaUpdateProject(p, t, code, kept) ==
    ENABLED (/\ UpdateProject(p, StatusOnlyBody(t))
             /\ response'.code = code
             /\ projects'[p].status = kept)

ViaUpdateProjectStatus(p, t, code, kept) ==
    ENABLED (/\ UpdateProjectStatus(p, t)
             /\ response'.code = code
             /\ projects'[p].status = kept)

\* C27: from every stored status, updateProject with only a status accepts the
\* requested status exactly when updateProjectStatus accepts it, persisting
\* the same status, and refuses it exactly when updateProjectStatus refuses it.
C27_SameTransitionRelation ==
    \A p \in ProjectIds, t \in AllStatuses :
        projects[p].exists =>
            /\ ViaUpdateProject(p, t, 200, t) <=> ViaUpdateProjectStatus(p, t, 200, t)
            /\ ViaUpdateProject(p, t, 400, projects[p].status)
                  <=> ViaUpdateProjectStatus(p, t, 400, projects[p].status)

\* C28: in every reachable state an approved estimation is also a checked
\* one, whatever markAsChecked, approveEstimation and updateEstimation did.
C28_ApprovedImpliesChecked ==
    \A e \in EstimationIds :
        (estimations[e].exists /\ estimations[e].isApproved = TRUE)
            => estimations[e].isChecked = TRUE

\* ------------------------------------- project handlers, interleaved

\* updateProjectStatus up to its await of findByIdAndUpdate: the status is
\* validated against the document findById returned.
UpdateProjectStatusFind(r, p, status) ==
    LET args == [id |-> p, status |-> status] IN
    /\ inflight[r].pc = "idle"
    /\ logged' = NoComment
    /\ UNCHANGED <<browsers, clients, projects, estimations, quotations,
                   lpos, workCompletions, storage, mail>>
    /\ IF status = None
       THEN /\ response' = Response("updateProjectStatus", args, 400,
                Msg("Status is required"))
            /\ UNCHANGED inflight
       ELSE IF ~projects[p].exists
       THEN /\ response' = Response("updateProjectStatus", args, 404,
                Msg("Project not found"))
            /\ UNCHANGED inflight
       ELSE IF ~TransitionAllowed(projects[p].status, status)
       THEN /\ response' = Response("updateProjectStatus", args, 400,
                InvalidTransitionMsg(projects[p].status, status))
            /\ UNCHANGED inflight
       ELSE /\ inflight' = [inflight EXCEPT ![r] =
                    [pc |-> "updateProjectStatusWrite", id |-> p, status |-> status]]
            /\ UNCHANGED response

\* Project.findByIdAndUpdate(id, {status, updatedBy}) and the response; the
\* update of a project deleted in the meantime writes nothing and answers 200.
UpdateProjectStatusWrite(r) ==
    LET p == inflight[r].id
        status == inflight[r].status
    IN
    /\ inflight[r].pc = "updateProjectStatusWrite"
    /\ logged' = NoComment
    /\ UNCHANGED <<browsers, clients, estimations, quotations, lpos,
                   workCompletions, storage, mail>>
    /\ projects' = IF projects[p].exists
                   THEN [projects EXCEPT ![p].status = status]
                   ELSE projects
    /\ inflight' = [inflight EXCEPT ![r] = Idle]
    /\ response' = Response("updateProjectStatus", [id |-> p, status |-> status],
            200, Msg("Project status updated successfully"))

\* deleteProject up to its await of findByIdAndDelete: the draft check is made
\* on the document findById returned.
DeleteProjectFind(r, p) ==
    LET args == [id |-> p] IN
    /\ inflight[r].pc = "idle"
    /\ logged' = NoComment
    /\ UNCHANGED <<browsers, clients, projects, estimations, quotations,
                   lpos, workCompletions, storage, mail>>
    /\ IF ~projects[p].exists
       THEN /\ response' = Response("deleteProject", args, 404, Msg("Project not found"))
            /\ UNCHANGED inflight
       ELSE IF ~Deletable(projects[p])
       THEN /\ response' = Response("deleteProject", args, 400,
                Msg("Cannot delete project that has already started"))
            /\ UNCHANGED inflight
       ELSE /\ inflight' = [inflight EXCEPT ![r] =
                    [pc |-> "deleteProjectRemove", id |-> p]]
            /\ UNCHANGED response

\* Project.findByIdAndDelete(id) and the response.
DeleteProjectRemove(r) ==
    LET p == inflight[r].id IN
    /\ inflight[r].pc = "deleteProjectRemove"
    /\ logged' = NoComment
    /\ UNCHANGED <<browsers, clients, estimations, quotations, lpos,
                   workCompletions, storage, mail>>
    /\ projects' = [projects EXCEPT ![p].exists = FALSE]
    /\ inflight' = [inflight EXCEPT ![r] = Idle]
    /\ response' = Response("deleteProject", [id |-> p], 200,
            Msg("Project deleted successfully"))

\* ------------------------------ specification: project requests interleaved

\* The two requests that run concurrently.
RaceReqs == {1, 2}

\* The statuses the concurrent updateProjectStatus requests ask for.
RaceStatuses == {"estimation_prepared", "quotation_sent", "on_hold", "cancelled"}

\* Two requests on one project, each suspended between its read and its
\* write, with createEstimation in between.
NextProjectRaces ==
    \/ \E trn \in Trns : CreateClient(trn, TRUE)
    \/ \E c \in ClientIds : CreateProject(c, TRUE)
    \/ \E r \in RaceReqs, p \in ProjectIds, t \in RaceStatuses :
            UpdateProjectStatusFind(r, p, t)
    \/ \E r \in RaceReqs : UpdateProjectStatusWrite(r)
    \/ \E r \in RaceReqs, p \in ProjectIds : DeleteProjectFind(r, p)
    \/ \E r \in RaceReqs : DeleteProjectRemove(r)
    \/ \E p \in ProjectIds :
            CreateEstimation(EstimationBody(p, TRUE, <<Material1>>, <<Labour1>>,
                                            <<>>, 200, 10))

SpecProjectRaces == Init /\ [][NextProjectRaces]_vars

\* Two updateProjectStatus requests on one project and nothing else that
\* writes a status.
NextStatusRaces ==
    \/ \E trn \in Trns : CreateClient(trn, TRUE)
    \/ \E c \in ClientIds : CreateProject(c, TRUE)
    \/ \E r \in RaceReqs, p \in ProjectIds, t \in RaceStatuses \cup {None} :
            UpdateProjectStatusFind(r, p, t)
    \/ \E r \in RaceReqs : UpdateProjectStatusWrite(r)

SpecStatusRaces == Init /\ [][NextStatusRaces]_vars

\* C29: with two updateProjectStatus requests interleaved, every persisted
\* change of a project's status from s to t has t listed in
\* validStatusTransitions[s], s being the status stored just before the write.
C29_PersistedChangesAreListed ==
    [][\A p \in ProjectIds :
          (/\ response'.op = "updateProjectStatus"
           /\ projects[p].exists /\ projects'[p].exists
           /\ projects'[p].status # projects[p].status)
              => TransitionAllowed(projects[p].status, projects'[p].status)]_vars

\* C30: deleteProject removes a project only when the status stored at the
\* moment of the removal is draft, also with a createEstimation or a status
\* change between its check and its delete.
C30_RemovedOnlyInDraft ==
    [][\A p \in ProjectIds :
          (projects[p].exists /\ ~projects'[p].exists)
              => projects[p].status = "draft"]_vars

====
